---- MODULE Spec2Model ----
(***************************************************************************)
(* Model of the butterfly rumor store (components/butterfly/src/rumor.rs). *)
(*                                                                         *)
(* One RumorStore<T> exists per rumor type T; `list` and `update_counter`  *)
(* are indexed by the type's name.  A store is a two-level map             *)
(* key -> id -> rumor guarded by one RwLock; the operations below are the  *)
(* handlers of RumorStore, each taken as one step (the caller runs them    *)
(* one after the other).                                                   *)
(*                                                                         *)
(* Time is counted in hours: Expiration::soon() is one hour ahead          *)
(* (60 * 60 seconds), Expiration::forever() is 5200 weeks ahead.           *)
(*                                                                         *)
(* The merge rules of the concrete rumor types live in rumor/departure.rs, *)
(* rumor/service.rs, rumor/election.rs, ... and member.rs, which are not   *)
(* part of the sources at hand; they are modelled from the specification   *)
(* (section 4.A and 4.C).  The test rumor FakeRumor is modelled from       *)
(* rumor.rs itself.                                                        *)
(***************************************************************************)
EXTENDS Integers, FiniteSets, Sequences, TLC

\* ------------------------------------------------------------------ bounds
\* Width of usize in the model: the update counter lives in 0 .. 2^UsizeBits - 1.
UsizeBits == 2
\* The clock runs from 0 to MaxTime hours.
MaxTime == 1
\* Width of the ignored-rumor counter in the model.
IgnoredBits == 1
\* Number of rumors in the set inserted into two stores in different orders.
MaxBatch == 2

\* ------------------------------------------------------- program constants
\* time::Duration::from_secs(60 * 60), in hours.
SoonHours == 1
\* Duration::weeks(5200), in hours.
ForeverHours == 873600

UsizeModulus == 2 ^ UsizeBits
UsizeMax == UsizeModulus - 1
IgnoredModulus == 2 ^ IgnoredBits

\* ------------------------------------------------------------- rumor types
Kinds == {"fake", "departure", "service", "service-config", "service-file",
          "election", "election-update", "member"}

Groups == {"g", "h"}
Members == {"m1", "m2"}
Incarnations == {1, 2}
Terms == {1, 2}
Bodies == {"p", "q"}
Phases == {"Running", "NoQuorum", "Finished"}
Healths == {"Alive", "Suspect", "Confirmed", "Departed"}

\* A rumor is a record; every rumor type uses the same fields and leaves the
\* ones it does not have at their default.
Rumor(kind, key, id, incarnation, body, term, member_id, phase, votes, health, expiration) ==
    [kind |-> kind, key |-> key, id |-> id, incarnation |-> incarnation,
     body |-> body, term |-> term, member_id |-> member_id, phase |-> phase,
     votes |-> votes, health |-> health, expiration |-> expiration]

NoRumor == Rumor("none", "", "", 0, "", 0, "", "", {}, "", 0)

FakeRumor(id, expiration) ==
    Rumor("fake", "fakerton", id, 0, "", 0, "", "", {}, "", expiration)

Departure(member_id, expiration) ==
    Rumor("departure", "departure", member_id, 0, "", 0, member_id, "", {}, "", expiration)

Service(group, member_id, incarnation, body, expiration) ==
    Rumor("service", group, member_id, incarnation, body, 0, member_id, "", {}, "", expiration)

ServiceConfig(group, incarnation, body, expiration) ==
    Rumor("service-config", group, "service_config", incarnation, body, 0, "", "", {}, "", expiration)

ServiceFile(group, filename, incarnation, body, expiration) ==
    Rumor("service-file", group, filename, incarnation, body, 0, "", "", {}, "", expiration)

Election(group, term, member_id, phase, votes, expiration) ==
    Rumor("election", group, "election", 0, "", term, member_id, phase, votes, "", expiration)

ElectionUpdate(group, term, member_id, phase, votes, expiration) ==
    Rumor("election-update", group, "election-update", 0, "", term, member_id, phase, votes, "", expiration)

Membership(member_id, incarnation, health, expiration) ==
    Rumor("member", "", member_id, incarnation, "", 0, member_id, "", {}, health, expiration)

\* ---------------------------------------------------------------- Expiration
Forever(now_) == now_ + ForeverHours

Soon(now_) == now_ + SoonHours

\* expired() that also takes the instant of the expiration itself as expired.
ExpiredInclusive(expiration, at) == at >= expiration

Expired(expiration, at) == at > expiration

\* The expirations an incoming rumor carries: a fresh rumor never ages out,
\* a rumor from the wire carries the date its sender wrote.
ExpirationInputs(now_) == {0, Forever(now_)}

\* The rumors of one type that are offered to insert.
RumorInputs(kind, now_) ==
    CASE kind = "fake" ->
           {FakeRumor(id, e) : id \in Members, e \in ExpirationInputs(now_)}
      [] kind = "departure" ->
           {Departure(m, Forever(now_)) : m \in {"m1"}}
      [] kind = "service" ->
           {Service("g", m, i, "p", e) : m \in Members, i \in Incarnations,
                                         e \in ExpirationInputs(now_)}
      [] kind = "service-config" ->
           {ServiceConfig(g, i, b, Forever(now_)) : g \in Groups, i \in Incarnations, b \in Bodies}
      [] kind = "service-file" ->
           {ServiceFile("g", "f", i, b, Forever(now_)) : i \in Incarnations, b \in Bodies}
      [] kind = "election" ->
           {Election("g", t, m, p, {v}, Forever(now_)) :
                t \in Terms, m \in Members, p \in Phases, v \in Members}
      [] kind = "election-update" ->
           {ElectionUpdate("g", t, m, p, {m}, Forever(now_)) :
                t \in Terms, m \in Members, p \in {"Running", "Finished"}}
      [] kind = "member" ->
           {Membership(m, i, h, Forever(now_)) : m \in {"m1"}, i \in Incarnations, h \in Healths}

\* The outer and inner keys the callers ask about: the ones the rumors of the
\* type use, and one that no rumor uses.
KeyInputs(kind) == {r.key : r \in RumorInputs(kind, 0)} \cup {"nokey"}

IdInputs(kind) == {r.id : r \in RumorInputs(kind, 0)} \cup {"noid"}

\* --------------------------------------------------------------- Rumor::merge
HealthRank(h) ==
    CASE h = "Alive" -> 0
      [] h = "Suspect" -> 1
      [] h = "Confirmed" -> 2
      [] h = "Departed" -> 3

Unchanged(self) == [rumor |-> self, changed |-> FALSE]

Adopt(other) == [rumor |-> other, changed |-> TRUE]

\* FakeRumor::merge: never changes anything.
MergeFake(self, other) == Unchanged(self)

\* Departure: merging into an existing departure changes nothing.
MergeDeparture(self, other) == Unchanged(self)

\* Service, ServiceConfig, ServiceFile: last writer wins by incarnation,
\* equal incarnation is a no-op.
MergeIncarnation(self, other) ==
    IF other.incarnation > self.incarnation THEN Adopt(other) ELSE Unchanged(self)

\* Election, ElectionUpdate: the election state machine.  A stored Finished
\* election that meets a non-Finished one of its own term is covered by no
\* rule and is left as it is.
MergeElection(self, other) ==
    IF other.term > self.term THEN Adopt(other)
    ELSE IF other.term < self.term THEN Unchanged(self)
    ELSE IF other.phase = "Finished" /\ self.phase # "Finished" THEN Adopt(other)
    ELSE IF other.phase = "Finished" /\ self.phase = "Finished" THEN Unchanged(self)
    ELSE IF other.phase # "Finished" /\ self.phase # "Finished"
         THEN [rumor |-> [self EXCEPT !.votes = self.votes \cup other.votes],
               changed |-> (self.votes \cup other.votes) # self.votes]
    ELSE Unchanged(self)

\* Membership: higher incarnation replaces, equal incarnation adopts a more
\* terminal health; after an accepted change a known departure forces the
\* health to Departed.
MergeMembership(self, other, departed) ==
    LET accepted ==
            IF other.incarnation > self.incarnation THEN Adopt(other)
            ELSE IF other.incarnation = self.incarnation
                    /\ HealthRank(other.health) > HealthRank(self.health)
                 THEN [rumor |-> [self EXCEPT !.health = other.health], changed |-> TRUE]
            ELSE Unchanged(self)
    IN  IF accepted.changed /\ departed
        THEN [accepted EXCEPT !.rumor.health = "Departed"]
        ELSE accepted

\* self.merge(other); `departed` tells whether a Departure is known for the member.
Merge(self, other, departed) ==
    CASE self.kind = "fake" -> MergeFake(self, other)
      [] self.kind = "departure" -> MergeDeparture(self, other)
      [] self.kind \in {"service", "service-config", "service-file"} -> MergeIncarnation(self, other)
      [] self.kind \in {"election", "election-update"} -> MergeElection(self, other)
      [] self.kind = "member" -> MergeMembership(self, other, departed)

\* expire() that leaves the date where it is.
ExpirationExpireKeeps(expiration, now_) == expiration

\* Expiration::expire: the date moves to soon_date().
ExpirationExpire(expiration, now_) == Soon(now_)

\* Rumor::expire: FakeRumor's does nothing, a Departure is never expired, the
\* other rumor types expire their expiration.
Expire(r, now_) ==
    IF r.kind \in {"fake", "departure"}
    THEN r
    ELSE [r EXCEPT !.expiration = ExpirationExpire(@, now_)]

\* ------------------------------------------------------- the two-level map
EmptyMap == [x \in {} |-> NoRumor]

ContainsRumor(m, key, id) == key \in DOMAIN m /\ id \in DOMAIN m[key]

GetRumor(m, key, id) == IF ContainsRumor(m, key, id) THEN m[key][id] ELSE NoRumor

\* len_for_key that counts the outer keys.
LenForKeyOuter(m, key) == IF key \in DOMAIN m THEN Cardinality(DOMAIN m) ELSE 0

LenForKey(m, key) == IF key \in DOMAIN m THEN Cardinality(DOMAIN m[key]) ELSE 0

\* All (key, id) pairs held by the map.
Entries(m) == UNION {{<<k, i>> : i \in DOMAIN m[k]} : k \in DOMAIN m}

\* An increment that counts down.
IncrementUpdateCounterDown(c) == (c + UsizeModulus - 1) % UsizeModulus

\* An increment that stops at usize::MAX.
IncrementUpdateCounterSaturates(c) == IF c = UsizeMax THEN c ELSE c + 1

\* fetch_add(1) on the AtomicUsize
IncrementUpdateCounter(c) == (c + 1) % UsizeModulus

\* insert with the update counter bumped on every call.
InsertStoreAlwaysCounts(m, c, ign, rumor, departed) ==
    LET rumors == IF rumor.key \in DOMAIN m THEN m[rumor.key] ELSE EmptyMap
        occupied == rumor.id \in DOMAIN rumors
        merged == Merge(rumors[rumor.id], rumor, departed)
        result == IF occupied THEN merged.changed ELSE TRUE
        stored == IF occupied THEN merged.rumor ELSE rumor
        rumors2 == [i \in DOMAIN rumors \cup {rumor.id} |->
                       IF i = rumor.id THEN stored ELSE rumors[i]]
    IN  [list |-> [k \in DOMAIN m \cup {rumor.key} |-> IF k = rumor.key THEN rumors2 ELSE m[k]],
         update_counter |-> IncrementUpdateCounter(c),
         ignored |-> IF result THEN ign ELSE (ign + 1) % IgnoredModulus,
         result |-> result]

\* insert that overwrites an occupied entry instead of merging into it.
InsertStoreOverwrites(m, c, ign, rumor, departed) ==
    LET rumors == IF rumor.key \in DOMAIN m THEN m[rumor.key] ELSE EmptyMap
        rumors2 == [i \in DOMAIN rumors \cup {rumor.id} |->
                       IF i = rumor.id THEN rumor ELSE rumors[i]]
    IN  [list |-> [k \in DOMAIN m \cup {rumor.key} |-> IF k = rumor.key THEN rumors2 ELSE m[k]],
         update_counter |-> IncrementUpdateCounter(c),
         ignored |-> ign,
         result |-> TRUE]

\* insert that keeps an occupied entry as it is, without merging.
InsertStoreKeepsFirst(m, c, ign, rumor, departed) ==
    LET rumors == IF rumor.key \in DOMAIN m THEN m[rumor.key] ELSE EmptyMap
        occupied == rumor.id \in DOMAIN rumors
        result == ~occupied
        rumors2 == [i \in DOMAIN rumors \cup {rumor.id} |->
                       IF i = rumor.id /\ ~occupied THEN rumor ELSE rumors[i]]
    IN  [list |-> [k \in DOMAIN m \cup {rumor.key} |-> IF k = rumor.key THEN rumors2 ELSE m[k]],
         update_counter |-> IF result THEN IncrementUpdateCounter(c) ELSE c,
         ignored |-> IF result THEN ign ELSE (ign + 1) % IgnoredModulus,
         result |-> result]

\* insert that files the rumor under its key in the inner map as well.
InsertStoreMisfiled(m, c, ign, rumor, departed) ==
    LET rumors == IF rumor.key \in DOMAIN m THEN m[rumor.key] ELSE EmptyMap
        occupied == rumor.key \in DOMAIN rumors
        merged == Merge(rumors[rumor.key], rumor, departed)
        result == IF occupied THEN merged.changed ELSE TRUE
        stored == IF occupied THEN merged.rumor ELSE rumor
        rumors2 == [i \in DOMAIN rumors \cup {rumor.key} |->
                       IF i = rumor.key THEN stored ELSE rumors[i]]
    IN  [list |-> [k \in DOMAIN m \cup {rumor.key} |-> IF k = rumor.key THEN rumors2 ELSE m[k]],
         update_counter |-> IF result THEN IncrementUpdateCounter(c) ELSE c,
         ignored |-> IF result THEN ign ELSE (ign + 1) % IgnoredModulus,
         result |-> result]

\* insert that puts the rumor in place of everything stored under its key.
InsertStoreReplacesGroup(m, c, ign, rumor, departed) ==
    LET rumors2 == [i \in {rumor.id} |-> rumor]
    IN  [list |-> [k \in DOMAIN m \cup {rumor.key} |-> IF k = rumor.key THEN rumors2 ELSE m[k]],
         update_counter |-> IncrementUpdateCounter(c),
         ignored |-> ign,
         result |-> TRUE]

\* insert that does not count the rumors it ignores.
InsertStoreIgnoresSilently(m, c, ign, rumor, departed) ==
    LET rumors == IF rumor.key \in DOMAIN m THEN m[rumor.key] ELSE EmptyMap
        occupied == rumor.id \in DOMAIN rumors
        merged == Merge(rumors[rumor.id], rumor, departed)
        result == IF occupied THEN merged.changed ELSE TRUE
        stored == IF occupied THEN merged.rumor ELSE rumor
        rumors2 == [i \in DOMAIN rumors \cup {rumor.id} |->
                       IF i = rumor.id THEN stored ELSE rumors[i]]
    IN  [list |-> [k \in DOMAIN m \cup {rumor.key} |-> IF k = rumor.key THEN rumors2 ELSE m[k]],
         update_counter |-> IF result THEN IncrementUpdateCounter(c) ELSE c,
         ignored |-> ign,
         result |-> result]

\* RumorStore::insert on a store with map m and update counter c; ign is the
\* ignored-rumor counter of the rumor's type.
InsertStore(m, c, ign, rumor, departed) ==
    LET rumors == IF rumor.key \in DOMAIN m THEN m[rumor.key] ELSE EmptyMap
        occupied == rumor.id \in DOMAIN rumors
        merged == Merge(rumors[rumor.id], rumor, departed)
        result == IF occupied THEN merged.changed ELSE TRUE
        stored == IF occupied THEN merged.rumor ELSE rumor
        rumors2 == [i \in DOMAIN rumors \cup {rumor.id} |->
                       IF i = rumor.id THEN stored ELSE rumors[i]]
    IN  [list |-> [k \in DOMAIN m \cup {rumor.key} |-> IF k = rumor.key THEN rumors2 ELSE m[k]],
         update_counter |-> IF result THEN IncrementUpdateCounter(c) ELSE c,
         ignored |-> IF result THEN ign ELSE (ign + 1) % IgnoredModulus,
         result |-> result]

\* remove that drops everything stored under the outer key.
RemoveStoreDropsKey(m, key, id) ==
    IF key \in DOMAIN m /\ id \in DOMAIN m[key]
    THEN [m EXCEPT ![key] = EmptyMap]
    ELSE m

\* RumorStore::remove: the inner map stays in place, possibly empty.
RemoveStore(m, key, id) ==
    IF key \in DOMAIN m
    THEN [m EXCEPT ![key] = [i \in DOMAIN m[key] \ {id} |-> m[key][i]]]
    ELSE m

\* RumorStore::expired_rumors / live_rumors
ExpiredRumors(m, at) == {m[e[1]][e[2]] : e \in {x \in Entries(m) : Expired(m[x[1]][x[2]].expiration, at)}}

LiveRumors(m, at) == {m[e[1]][e[2]] : e \in {x \in Entries(m) : ~Expired(m[x[1]][x[2]].expiration, at)}}

\* purge_expired that empties every outer key holding an expired rumor.
PurgeStoreDropsKeys(m, at) ==
    LET gone == {r.key : r \in ExpiredRumors(m, at)}
    IN  [k \in DOMAIN m |-> IF k \in gone THEN EmptyMap ELSE m[k]]

\* RumorStore::purge_expired: remove(r.key(), r.id()) for every expired rumor.
PurgeStore(m, at) ==
    LET gone == {<<r.key, r.id>> : r \in ExpiredRumors(m, at)}
    IN  [k \in DOMAIN m |-> [i \in {j \in DOMAIN m[k] : <<k, j>> \notin gone} |-> m[k][i]]]

\* RumorKey::from(rumor): the descriptor (kind, id, key) of a rumor.
RumorKey(rumor) == [kind |-> rumor.kind, id |-> rumor.id, key |-> rumor.key]

\* rumor_keys that describes every stored rumor, expired or not.
RumorKeysOfAll(m, now_) == {RumorKey(m[e[1]][e[2]]) : e \in Entries(m)}

\* RumorStore::rumor_keys: the descriptors of live_rumors(Utc::now()).
RumorKeys(m, now_) == {RumorKey(r) : r \in LiveRumors(m, now_)}

\* expire_all_for_key that expires the rumors of every outer key.
ExpireStoreEveryKey(m, key, now_) ==
    IF key \in DOMAIN m
    THEN [k \in DOMAIN m |-> [i \in DOMAIN m[k] |-> Expire(m[k][i], now_)]]
    ELSE m

\* RumorStore::expire_all_for_key
ExpireStore(m, key, now_) ==
    IF key \in DOMAIN m
    THEN [m EXCEPT ![key] = [i \in DOMAIN m[key] |-> Expire(m[key][i], now_)]]
    ELSE m

\* ------------------------------------------------------- results of calls
\* Result::Ok, Result::Err and a panic; Option::Some and Option::None.
Ok(value) == [ok |-> value]

Err(error) == [err |-> error]

Panic(message) == [panic |-> message]

IsOk(res) == DOMAIN res = {"ok"}

Some(value) == [some |-> value]

None == [none |-> TRUE]

IsSome(opt) == DOMAIN opt = {"some"}

\* The value of ().
Unit == "()"

\* Error::NonExistentRumor(id, key) and Error::ProtocolMismatch(field)
NonExistentRumor(id, key) == <<"NonExistentRumor", id, key>>

ProtocolMismatch(field) == <<"ProtocolMismatch", field>>

\* ----------------------------------------------------- the order of strings
\* The member ids the queries are asked about, beyond the ones the stores
\* are fed with: an upper-case one, and one that has another as its prefix.
QueryIds == {"M3", "m1", "m10", "m2"}

\* The bytes of the strings used as inner keys.
Utf8(str) ==
    CASE str = "M3" -> <<77, 51>>
      [] str = "m1" -> <<109, 49>>
      [] str = "m10" -> <<109, 49, 48>>
      [] str = "m2" -> <<109, 50>>

\* String's Ord: byte by byte, a proper prefix first.
LexLess(a, b) ==
    \/ \E i \in 1 .. Len(a) :
          /\ i <= Len(b)
          /\ a[i] < b[i]
          /\ \A j \in 1 .. i - 1 : a[j] = b[j]
    \/ Len(a) < Len(b) /\ \A j \in 1 .. Len(a) : a[j] = b[j]

\* Iterator::min over the strings in the order the iterator yields them.
RECURSIVE IteratorMin(_, _)
IteratorMin(acc, rest) ==
    IF rest = <<>> THEN acc
    ELSE IteratorMin(IF LexLess(Utf8(Head(rest)), Utf8(acc)) THEN Head(rest) ELSE acc,
                     Tail(rest))

\* The strings of a set, sorted.
RECURSIVE SortedSeq(_)
SortedSeq(S) ==
    IF S = {} THEN <<>>
    ELSE LET least == CHOOSE x \in S : \A y \in S \ {x} : LexLess(Utf8(x), Utf8(y))
         IN  <<least>> \o SortedSeq(S \ {least})

\* The orders in which a HashMap may yield the elements of a set.
Orders(S) == {o \in [1 .. Cardinality(S) -> S] : \A x \in S : \E i \in DOMAIN o : o[i] = x}

\* --------------------------------------------------------------- the wire
\* RumorType, in the order of its values: the seven rumor variants, and the
\* two types of the test rumors.
RumorTypes == <<"member", "departure", "service", "service-config", "service-file",
                "election", "election-update", "fake", "fake2">>

\* RumorType::from_i32
RumorTypeFromI32(n) == IF n \in 1 .. Len(RumorTypes) THEN Some(RumorTypes[n]) ELSE None

\* r#type as i32
RumorTypeAsI32(type) == CHOOSE n \in 1 .. Len(RumorTypes) : RumorTypes[n] = type

\* Expiration::for_proto: the date as RFC 3339 text.
ForProto(expiration) == <<"rfc3339", expiration>>

\* Expiration::from_proto: no text means forever, text is parsed.
ExpirationFromProto(text, now_) ==
    IF ~IsSome(text) THEN Ok(Forever(now_))
    ELSE IF Len(text.some) = 2 /\ text.some[1] = "rfc3339" THEN Ok(text.some[2])
    ELSE Err(<<"ExpirationParse">>)

\* The variant of RumorPayload a RumorKind is written as.
PayloadVariant(kind) == IF kind = "election-update" THEN "election" ELSE kind

\* T::into() the payload of its variant: the fields the rumor type carries.
ToPayload(r) ==
    [variant |-> PayloadVariant(r.kind),
     service_group |-> IF r.kind \in {"member", "departure"} THEN "" ELSE r.key,
     member_id |-> r.member_id,
     filename |-> IF r.kind = "service-file" THEN r.id ELSE "",
     incarnation |-> r.incarnation,
     body |-> r.body,
     term |-> r.term,
     phase |-> r.phase,
     votes |-> SortedSeq(r.votes),
     health |-> r.health,
     expiration |-> Some(ForProto(r.expiration))]

\* The set of the elements of a sequence.
Range(seq) == {seq[i] : i \in DOMAIN seq}

\* T::from_proto(proto) for the rumor type T of the given RumorType.
FromProto(type, proto, now_) ==
    IF ~IsSome(proto.payload) THEN Err(ProtocolMismatch("payload"))
    ELSE LET p == proto.payload.some
             e == ExpirationFromProto(p.expiration, now_)
         IN  IF p.variant # PayloadVariant(type) THEN Err(ProtocolMismatch("payload"))
             ELSE IF ~IsOk(e) THEN Err(ProtocolMismatch("expiration"))
             ELSE Ok(CASE type = "departure" -> Departure(p.member_id, e.ok)
                       [] type = "service" ->
                            Service(p.service_group, p.member_id, p.incarnation, p.body, e.ok)
                       [] type = "service-config" ->
                            ServiceConfig(p.service_group, p.incarnation, p.body, e.ok)
                       [] type = "service-file" ->
                            ServiceFile(p.service_group, p.filename, p.incarnation, p.body, e.ok)
                       [] type = "election" ->
                            Election(p.service_group, p.term, p.member_id, p.phase,
                                     Range(p.votes), e.ok)
                       [] type = "election-update" ->
                            ElectionUpdate(p.service_group, p.term, p.member_id, p.phase,
                                           Range(p.votes), e.ok)
                       [] type = "member" ->
                            Membership(p.member_id, p.incarnation, p.health, e.ok))

\* RumorEnvelope { type, from_id, kind }
RumorEnvelope(type, from_id, kind) == [type |-> type, from_id |-> from_id, kind |-> kind]

\* From<RumorEnvelope> for ProtoRumor
ProtoRumor(value) ==
    [type |-> RumorTypeAsI32(value.type),
     tag |-> <<>>,
     from_id |-> Some(value.from_id),
     payload |-> Some(ToPayload(value.kind))]

\* prost's encode: the fields that are set, in ascending field order.
ProstEncode(proto) ==
    <<<<1, proto.type>>>>
    \o (IF IsSome(proto.from_id) THEN <<<<2, proto.from_id.some>>>> ELSE <<>>)
    \o (IF IsSome(proto.payload) THEN <<<<3, proto.payload.some>>>> ELSE <<>>)
    \o [i \in DOMAIN proto.tag |-> <<4, proto.tag[i]>>]

\* The values of one field of an encoded message, in order.
FieldValues(bytes, field) ==
    LET hits == SelectSeq(bytes, LAMBDA f : f[1] = field)
    IN  [i \in DOMAIN hits |-> hits[i][2]]

\* prost's decode: the last value of a field counts, a field not on the wire
\* is None, the type is required.
ProstDecode(bytes) ==
    LET last(field) == LET vs == FieldValues(bytes, field)
                       IN  IF vs = <<>> THEN None ELSE Some(vs[Len(vs)])
    IN  IF ~IsSome(last(1)) THEN Err(<<"DecodeError">>)
        ELSE Ok([type |-> last(1).some,
                 tag |-> FieldValues(bytes, 4),
                 from_id |-> last(2),
                 payload |-> last(3)])

\* RumorEnvelope::encode
EnvelopeEncode(value) == Ok(ProstEncode(ProtoRumor(value)))

\* decode that looks at from_id before it looks at the type.
EnvelopeDecodeFromIdFirst(bytes, now_) ==
    LET proto == ProstDecode(bytes)
    IN  IF ~IsOk(proto) THEN proto
        ELSE LET type == RumorTypeFromI32(proto.ok.type)
                 from_id == proto.ok.from_id
             IN  IF ~IsSome(from_id) THEN Err(ProtocolMismatch("from-id"))
                 ELSE IF ~IsSome(type) THEN Err(ProtocolMismatch("type"))
                 ELSE IF type.some \in {"fake", "fake2"} THEN Panic("fake rumor")
                 ELSE LET kind == FromProto(type.some, proto.ok, now_)
                      IN  IF ~IsOk(kind) THEN kind
                          ELSE Ok(RumorEnvelope(type.some, from_id.some, kind.ok))

\* decode that reads the rumor as the variant its payload is written as.
EnvelopeDecodeByPayload(bytes, now_) ==
    LET proto == ProstDecode(bytes)
    IN  IF ~IsOk(proto) THEN proto
        ELSE LET type == RumorTypeFromI32(proto.ok.type)
                 from_id == proto.ok.from_id
             IN  IF ~IsSome(type) THEN Err(ProtocolMismatch("type"))
                 ELSE IF ~IsSome(from_id) THEN Err(ProtocolMismatch("from-id"))
                 ELSE IF type.some \in {"fake", "fake2"} THEN Panic("fake rumor")
                 ELSE LET kind == FromProto(PayloadVariant(type.some), proto.ok, now_)
                      IN  IF ~IsOk(kind) THEN kind
                          ELSE Ok(RumorEnvelope(type.some, from_id.some, kind.ok))

\* RumorEnvelope::decode
EnvelopeDecode(bytes, now_) ==
    LET proto == ProstDecode(bytes)
    IN  IF ~IsOk(proto) THEN proto
        ELSE LET type == RumorTypeFromI32(proto.ok.type)
                 from_id == proto.ok.from_id
             IN  IF ~IsSome(type) THEN Err(ProtocolMismatch("type"))
                 ELSE IF ~IsSome(from_id) THEN Err(ProtocolMismatch("from-id"))
                 ELSE IF type.some \in {"fake", "fake2"} THEN Panic("fake rumor")
                 ELSE LET kind == FromProto(type.some, proto.ok, now_)
                      IN  IF ~IsOk(kind) THEN kind
                          ELSE Ok(RumorEnvelope(type.some, from_id.some, kind.ok))

\* Message::write_to_bytes of a rumor: FakeRumor writes "<id>-<key>", the
\* rumor types of the wire write their envelope.
WriteToBytes(r) ==
    IF r.kind = "fake"
    THEN Ok(r.id \o "-" \o r.key)
    ELSE EnvelopeEncode(RumorEnvelope(r.kind, r.member_id, r))

\* -------------------------------------------------- the calls that return
\* encode that names the missing rumor by (key, id).
EncodeStoreSwapsNames(m, key, id) ==
    IF key \in DOMAIN m /\ id \in DOMAIN m[key]
    THEN WriteToBytes(m[key][id])
    ELSE Err(NonExistentRumor(key, id))

\* RumorStore::encode
EncodeStore(m, key, id) ==
    IF key \in DOMAIN m
    THEN IF id \in DOMAIN m[key]
         THEN WriteToBytes(m[key][id])
         ELSE Err(NonExistentRumor(id, key))
    ELSE Err(NonExistentRumor(id, key))

\* What RumorStore::remove returns: (), whether or not the entry was there.
RemoveReturn(m, key, id) == Ok(Unit)

\* The calls with_rumor makes to its closure.
WithRumor(m, key, id) ==
    IF key \in DOMAIN m
    THEN IF id \in DOMAIN m[key] THEN <<m[key][id]>> ELSE <<>>
    ELSE <<>>

\* RumorStore<Service>::contains_group_without_member
ContainsGroupWithoutMember(m, service_group, member_id) ==
    IF service_group \in DOMAIN m
    THEN member_id \notin DOMAIN m[service_group]
    ELSE FALSE

\* min_member_id_with that takes the first key the iterator yields.
MinMemberIdWithFirst(m, service_group, predicate, order) ==
    IF service_group \notin DOMAIN m THEN None
    ELSE LET keys == SelectSeq(order, LAMBDA id : id \in predicate)
         IN  IF keys = <<>> THEN None ELSE Some(Head(keys))

\* RumorStore<Service>::min_member_id_with: `order` is the order in which the
\* inner map yields its keys, `predicate` the set of keys the closure accepts.
MinMemberIdWith(m, service_group, predicate, order) ==
    IF service_group \notin DOMAIN m THEN None
    ELSE LET keys == SelectSeq(order, LAMBDA id : id \in predicate)
         IN  IF keys = <<>> THEN None ELSE Some(IteratorMin(Head(keys), Tail(keys)))

\* ------------------------------------------------------------ projections
\* The map the proxies of Election, ElectionUpdate and ServiceConfig build:
\* for every outer key, what the inner map holds under the fixed inner key.
CollapseInnerKey(m, inner_key) ==
    [k \in DOMAIN m |-> IF inner_key \in DOMAIN m[k] THEN Some(m[k][inner_key]) ELSE None]

\* Serialize for RumorStoreProxy<Election>, <ElectionUpdate>, <ServiceConfig>
ProxySerialize(kind, m) ==
    CASE kind = "election" -> CollapseInnerKey(m, "election")
      [] kind = "election-update" -> CollapseInnerKey(m, "election")
      [] kind = "service-config" -> CollapseInnerKey(m, "service_config")

\* --------------------------------------------------------------- the dat file
\* Error::IncompatibleDatFile(version) and Error::CorruptDatFile(section)
IncompatibleDatFile(version) == <<"IncompatibleDatFile", version>>

CorruptDatFile(section) == <<"CorruptDatFile", section>>

\* header_version of the layout.
HeaderVersion == 2

\* The sections of the file, in the order of the header.
DatSections == <<"member", "service", "service-config", "service-file",
                 "election", "election-update", "departure">>

\* The elements of a sequence of sequences, one after the other.
RECURSIVE Concat(_)
Concat(seqs) == IF seqs = <<>> THEN <<>> ELSE Head(seqs) \o Concat(Tail(seqs))

\* One framed rumor: frame_length, then the bytes of the encoded envelope.
Frame(r) == LET bytes == WriteToBytes(r).ok IN <<Len(bytes)>> \o bytes

\* A section: the framed rumors of a store, in the order the maps yield them.
SectionBytes(m, order) == Concat([i \in DOMAIN order |-> Frame(m[order[i][1]][order[i][2]])])

\* snapshot_bytes: the header and the sections of the stores; orders[k] is the
\* order in which store k yields its rumors.
SnapshotBytes(lists, orders) ==
    LET sections == [i \in DOMAIN DatSections |->
                        IF DatSections[i] \in DOMAIN lists
                        THEN SectionBytes(lists[DatSections[i]], orders[DatSections[i]])
                        ELSE <<>>]
    IN  <<HeaderVersion>> \o [i \in DOMAIN sections |-> Len(sections[i])] \o Concat(sections)

\* The frames of a section; a frame longer than what is left is corrupt.
RECURSIVE ParseFrames(_)
ParseFrames(section) ==
    IF section = <<>> THEN Ok(<<>>)
    ELSE LET n == section[1]
         IN  IF n + 1 > Len(section) THEN Err("truncated")
             ELSE LET rest == ParseFrames(SubSeq(section, n + 2, Len(section)))
                  IN  IF ~IsOk(rest) THEN rest
                      ELSE Ok(<<SubSeq(section, 2, n + 1)>> \o rest.ok)

\* The rumors of the frames, put into a map under (key, id) one by one.
RECURSIVE LoadFrames(_, _, _)
LoadFrames(m, frames, now_) ==
    IF frames = <<>> THEN Ok(m)
    ELSE LET envelope == EnvelopeDecode(Head(frames), now_)
         IN  IF ~IsOk(envelope) THEN envelope
             ELSE LET r == envelope.ok.kind
                      inner == IF r.key \in DOMAIN m THEN m[r.key] ELSE EmptyMap
                      inner_ == [i \in DOMAIN inner \cup {r.id} |->
                                    IF i = r.id THEN r ELSE inner[i]]
                  IN  LoadFrames([k \in DOMAIN m \cup {r.key} |->
                                     IF k = r.key THEN inner_ ELSE m[k]],
                                 Tail(frames), now_)

\* The reader: the version is validated, each section is cut out by its
\* length and loaded.
ReadDatFile(bytes, now_) ==
    IF Len(bytes) < 1 + Len(DatSections) THEN Err(CorruptDatFile("header"))
    ELSE IF bytes[1] # HeaderVersion THEN Err(IncompatibleDatFile(bytes[1]))
    ELSE LET RECURSIVE offset(_)
             offset(i) == IF i = 1 THEN 1 + Len(DatSections) ELSE offset(i - 1) + bytes[i]
             truncated == {i \in DOMAIN DatSections : offset(i) + bytes[i + 1] > Len(bytes)}
             loaded == [i \in DOMAIN DatSections |->
                           LET frames == ParseFrames(SubSeq(bytes, offset(i) + 1,
                                                            offset(i) + bytes[i + 1]))
                           IN  IF ~IsOk(frames) THEN frames
                               ELSE LoadFrames(EmptyMap, frames.ok, now_)]
             bad == {i \in DOMAIN DatSections : ~IsOk(loaded[i])}
         IN  IF truncated # {}
             THEN Err(CorruptDatFile(DatSections[CHOOSE i \in truncated :
                                                    \A j \in truncated : i <= j]))
             ELSE IF bad # {}
             THEN Err(CorruptDatFile(DatSections[CHOOSE i \in bad : \A j \in bad : i <= j]))
             ELSE Ok([k \in Range(DatSections) |->
                         loaded[CHOOSE i \in DOMAIN DatSections : DatSections[i] = k].ok])

\* restore_from_bytes on the store of type k: the list is replaced by the
\* section of k, the update counter is incremented.
RestoreFromBytes(k, m, counter, bytes, now_) ==
    LET read == ReadDatFile(bytes, now_)
    IN  IF ~IsOk(read) THEN [result |-> read, list |-> m, update_counter |-> counter]
        ELSE [result |-> Ok(Unit), list |-> read.ok[k],
              update_counter |-> IncrementUpdateCounter(counter)]

\* ------------------------------------------------------------------- state
VARIABLES
    scope,            \* the rumor types whose stores this run exercises
    list,             \* list[T]: the map of RumorStore<T>
    update_counter,   \* update_counter[T]: the AtomicUsize of RumorStore<T>
    ignored,          \* IGNORED_RUMOR_COUNT, per rumor type
    now,              \* Utc::now(), in hours
    counter0,         \* counter0[T]: the counter at construction or after the last clear
    n_changed,        \* n_changed[T]: inserts that returned true since then (mod 2^w)
    list2,            \* a second store of each type (another node)
    update_counter2,  \* its update counter
    pending1,         \* rumors still to be inserted into the first store
    pending2,         \* rumors still to be inserted into the second store
    lock,             \* the RwLock around list: its writer and its readers
    pc,               \* pc[t]: where thread t stands in the operation it runs
    local,            \* local[t]: the locals of thread t (rumor, result, counter read)
    returned,         \* sum of the values clear() returned so far (mod 2^w)
    counted,          \* (key, id) pairs whose insert bumped the counter since the last clear
    seen,             \* counted, as it stood when the reader last loaded the counter
    call              \* the last call of a function that only returns: its input and output

\* The variables of the threads that share one store.
thread_vars == <<lock, pc, local, returned, counted, seen>>

vars == <<scope, list, update_counter, ignored, now, counter0, n_changed,
          list2, update_counter2, pending1, pending2,
          lock, pc, local, returned, counted, seen, call>>

NoCall == [op |-> "none"]

\* The threads that share the store: two that insert, one that clears, one
\* that reads; one that purges, one that serializes the store, one that
\* removes and expires.
Inserters == {"w1", "w2"}

Clearers == {"c"}

Readers == {"r"}

Purgers == {"p"}

Serializers == {"s"}

Mutators == {"x"}

Threads == Inserters \cup Clearers \cup Readers \cup Purgers \cup Serializers \cup Mutators

NoLocals == [rumor |-> NoRumor, result |-> FALSE, counter |-> 0]

\* No thread runs an operation and nobody holds the lock.
InitThreads ==
    /\ lock = [writer |-> "none", readers |-> {}]
    /\ pc = [t \in Threads |-> "idle"]
    /\ local = [t \in Threads |-> NoLocals]
    /\ returned = 0
    /\ counted = {}
    /\ seen = {}
    /\ call = NoCall

\* Each run exercises the store of one rumor type.
Scopes == {{k} : k \in Kinds}

\* The stores that receive rumors in a run: the member list is merged with
\* the Departure store at hand, which takes in departures meanwhile.
Receiving(scope_) == scope_ \cup (IF "member" \in scope_ THEN {"departure"} ELSE {})

\* Whether the Departure store knows a departure of the rumor's member.
KnownDeparted(departures, rumor) ==
    rumor.kind = "member" /\ ContainsRumor(departures, "departure", rumor.id)

\* RumorStore::new(counter) / RumorStore::default() for every store.
Init ==
    /\ scope \in Scopes
    /\ list = [k \in Receiving(scope) |-> EmptyMap]
    /\ update_counter \in {[k \in Receiving(scope) |-> IF k \in scope THEN c ELSE 0] : c \in {0, UsizeMax}}
    /\ ignored = [k \in Receiving(scope) |-> 0]
    /\ now = 0
    /\ counter0 = update_counter
    /\ n_changed = [k \in Receiving(scope) |-> 0]
    /\ list2 = [k \in Receiving(scope) |-> EmptyMap]
    /\ update_counter2 = [k \in Receiving(scope) |-> 0]
    /\ pending1 = {}
    /\ pending2 = {}
    /\ InitThreads

\* rs.insert(rumor) on the first store
InsertFirst(rumor) ==
    LET k == rumor.kind
        res == InsertStore(list[k], update_counter[k], ignored[k], rumor,
                           KnownDeparted(list["departure"], rumor))
    IN  /\ k \in Receiving(scope)
        /\ list' = [list EXCEPT ![k] = res.list]
        /\ update_counter' = [update_counter EXCEPT ![k] = res.update_counter]
        /\ ignored' = [ignored EXCEPT ![k] = res.ignored]
            /\ n_changed' = [n_changed EXCEPT ![k] =
                            IF res.result THEN (@ + 1) % UsizeModulus ELSE @]
        /\ UNCHANGED <<scope, now, counter0>>

\* rs.insert(rumor) on the second store
InsertSecond(rumor) ==
    LET k == rumor.kind
        res == InsertStore(list2[k], update_counter2[k], ignored[k], rumor,
                           KnownDeparted(list2["departure"], rumor))
    IN  /\ k \in Receiving(scope)
        /\ list2' = [list2 EXCEPT ![k] = res.list]
        /\ update_counter2' = [update_counter2 EXCEPT ![k] = res.update_counter]
        /\ ignored' = [ignored EXCEPT ![k] = res.ignored]
            /\ UNCHANGED <<scope, now, counter0, n_changed, list, update_counter>>

\* rs.insert(rumor)
Insert(rumor) ==
    /\ InsertFirst(rumor)
    /\ UNCHANGED <<list2, update_counter2, pending1, pending2>>
    /\ UNCHANGED thread_vars
    /\ UNCHANGED call

\* rs.remove(key, id)
Remove(k, key, id) ==
    /\ k \in scope
    /\ list' = [list EXCEPT ![k] = RemoveStore(@, key, id)]
    /\ UNCHANGED <<scope, update_counter, ignored, now, counter0, n_changed,
                   list2, update_counter2, pending1, pending2>>
    /\ UNCHANGED thread_vars
    /\ UNCHANGED call

\* rs.clear(): empties the map, swaps the counter to 0 and returns its old value.
Clear(k) ==
    /\ k \in scope
    /\ list' = [list EXCEPT ![k] = EmptyMap]
    /\ update_counter' = [update_counter EXCEPT ![k] = 0]
    /\ counter0' = [counter0 EXCEPT ![k] = 0]
    /\ n_changed' = [n_changed EXCEPT ![k] = 0]
    /\ UNCHANGED <<scope, ignored, now, list2, update_counter2, pending1, pending2>>
    /\ UNCHANGED thread_vars
    /\ UNCHANGED call

\* rs.purge_expired(at)
PurgeExpired(k, at) ==
    /\ k \in scope
    /\ list' = [list EXCEPT ![k] = PurgeStore(@, at)]
    /\ UNCHANGED <<scope, update_counter, ignored, now, counter0, n_changed,
                   list2, update_counter2, pending1, pending2>>
    /\ UNCHANGED thread_vars
    /\ UNCHANGED call

\* rs.expire_all_for_key(key)
ExpireAllForKey(k, key) ==
    /\ k \in scope
    /\ list' = [list EXCEPT ![k] = ExpireStore(@, key, now)]
    /\ UNCHANGED <<scope, update_counter, ignored, now, counter0, n_changed,
                   list2, update_counter2, pending1, pending2>>
    /\ UNCHANGED thread_vars
    /\ UNCHANGED call

\* An hour passes.
Tick ==
    /\ now < MaxTime
    /\ now' = now + 1
    /\ UNCHANGED <<scope, list, update_counter, ignored, counter0, n_changed,
                   list2, update_counter2, pending1, pending2>>
    /\ UNCHANGED thread_vars
    /\ UNCHANGED call

\* The dates purge_expired is called with: the current time, or a later one.
AtInputs == {now, now + SoonHours + 1}

Next ==
    \/ \E k \in Receiving(scope) : \E rumor \in RumorInputs(k, now) : Insert(rumor)
    \/ \E k \in scope : \E key \in KeyInputs(k), id \in IdInputs(k) : Remove(k, key, id)
    \/ \E k \in scope : Clear(k)
    \/ \E k \in scope : \E at \in AtInputs : PurgeExpired(k, at)
    \/ \E k \in scope : \E key \in KeyInputs(k) : ExpireAllForKey(k, key)
    \/ Tick

Spec == Init /\ [][Next]_vars

\* ------------------------------------------- two stores, one set of rumors
\* The same set of rumors is inserted into two initially empty stores, each
\* in an order of its own.
Batches(k) == {S \in SUBSET RumorInputs(k, 0) : Cardinality(S) \in 1 .. MaxBatch}

InitConv ==
    /\ scope \in Scopes
    /\ list = [k \in Receiving(scope) |-> EmptyMap]
    /\ update_counter = [k \in Receiving(scope) |-> 0]
    /\ ignored = [k \in Receiving(scope) |-> 0]
    /\ now = 0
    /\ counter0 = update_counter
    /\ n_changed = [k \in Receiving(scope) |-> 0]
    /\ list2 = [k \in Receiving(scope) |-> EmptyMap]
    /\ update_counter2 = [k \in Receiving(scope) |-> 0]
    /\ pending1 \in UNION {Batches(k) : k \in scope}
    /\ pending2 = pending1
    /\ InitThreads

ConvInsertFirst(rumor) ==
    /\ rumor \in pending1
    /\ InsertFirst(rumor)
    /\ pending1' = pending1 \ {rumor}
    /\ UNCHANGED <<list2, update_counter2, pending2>>
    /\ UNCHANGED thread_vars
    /\ UNCHANGED call

ConvInsertSecond(rumor) ==
    /\ rumor \in pending2
    /\ InsertSecond(rumor)
    /\ pending2' = pending2 \ {rumor}
    /\ UNCHANGED <<pending1, lock, pc, local, returned, counted, seen, call>>

NextConv ==
    \/ \E rumor \in pending1 : ConvInsertFirst(rumor)
    \/ \E rumor \in pending2 : ConvInsertSecond(rumor)

SpecConv == InitConv /\ [][NextConv]_vars

\* --------------------------------------------- threads sharing one store
\* Several threads call into one RumorStore<FakeRumor>.  insert and clear
\* hold the write guard of the RwLock from their first line to their return;
\* get_update_counter loads the AtomicUsize without the lock; the read
\* operations (contains_rumor, with_rumor, encode, ...) hold a read guard.
\* Each action is one step of one thread.

\* The rumors the threads insert.
ThreadRumors == {FakeRumor(id, Forever(0)) : id \in Members}

\* RwLock::write succeeds when nobody holds the lock.
WriteLockFree == lock.writer = "none" /\ lock.readers = {}

\* RwLock::read succeeds when no writer holds the lock.
ReadLockFree == lock.writer = "none"

\* Dropping the write guard.
WriteUnlock(t) == IF lock.writer = t THEN [lock EXCEPT !.writer = "none"] ELSE lock

\* The variables the threads leave alone.
single_vars == <<scope, now, counter0, list2, update_counter2, pending1, pending2, call>>

InitShared ==
    /\ scope = {"fake"}
    /\ list = [k \in scope |-> EmptyMap]
    /\ update_counter \in {[k \in scope |-> c] : c \in {0, UsizeMax}}
    /\ ignored = [k \in scope |-> 0]
    /\ now = 0
    /\ counter0 = update_counter
    /\ n_changed = [k \in scope |-> 0]
    /\ list2 = [k \in scope |-> EmptyMap]
    /\ update_counter2 = [k \in scope |-> 0]
    /\ pending1 = {}
    /\ pending2 = {}
    /\ InitThreads

\* insert that goes ahead without the write guard.
InsertLockSkipped(t, rumor) ==
    /\ t \in Inserters
    /\ pc[t] = "idle"
    /\ pc' = [pc EXCEPT ![t] = "apply"]
    /\ local' = [local EXCEPT ![t].rumor = rumor]
    /\ UNCHANGED <<list, update_counter, ignored, n_changed, lock, returned, counted, seen>>
    /\ UNCHANGED single_vars

\* insert: let mut list = self.write_entries();
InsertLock(t, rumor) ==
    /\ t \in Inserters
    /\ pc[t] = "idle"
    /\ WriteLockFree
    /\ lock' = [lock EXCEPT !.writer = t]
    /\ pc' = [pc EXCEPT ![t] = "apply"]
    /\ local' = [local EXCEPT ![t].rumor = rumor]
    /\ UNCHANGED <<list, update_counter, ignored, n_changed, returned, counted, seen>>
    /\ UNCHANGED single_vars

\* insert: the entry is merged into or filled; result tells whether it changed.
InsertApply(t) ==
    LET res == InsertStore(list["fake"], update_counter["fake"], ignored["fake"],
                           local[t].rumor, FALSE)
    IN  /\ pc[t] = "apply"
        /\ list' = [list EXCEPT !["fake"] = res.list]
        /\ local' = [local EXCEPT ![t].result = res.result]
        /\ pc' = [pc EXCEPT ![t] = "count"]
        /\ UNCHANGED <<update_counter, ignored, n_changed, lock, returned, counted, seen>>
        /\ UNCHANGED single_vars

\* insert: if result { increment_update_counter() } else { kind_ignored_count.inc() }
InsertCount(t) ==
    /\ pc[t] = "count"
    /\ IF local[t].result
       THEN /\ update_counter' = [update_counter EXCEPT !["fake"] = IncrementUpdateCounter(@)]
            /\ counted' = counted \cup {<<local[t].rumor.key, local[t].rumor.id>>}
            /\ UNCHANGED ignored
       ELSE /\ ignored' = [ignored EXCEPT !["fake"] = (@ + 1) % IgnoredModulus]
            /\ UNCHANGED <<update_counter, counted>>
    /\ pc' = [pc EXCEPT ![t] = "return"]
    /\ UNCHANGED <<list, n_changed, lock, local, returned, seen>>
    /\ UNCHANGED single_vars

\* insert: result is returned and the write guard is dropped.
InsertReturn(t) ==
    /\ t \in Inserters
    /\ pc[t] = "return"
    /\ n_changed' = [n_changed EXCEPT !["fake"] =
                        IF local[t].result THEN (@ + 1) % UsizeModulus ELSE @]
    /\ lock' = WriteUnlock(t)
    /\ pc' = [pc EXCEPT ![t] = "idle"]
    /\ local' = [local EXCEPT ![t] = NoLocals]
    /\ UNCHANGED <<list, update_counter, ignored, returned, counted, seen>>
    /\ UNCHANGED single_vars

\* clear that goes ahead without the write guard.
ClearLockSkipped(t) ==
    /\ t \in Clearers
    /\ pc[t] = "idle"
    /\ pc' = [pc EXCEPT ![t] = "clear"]
    /\ UNCHANGED <<list, update_counter, ignored, n_changed, lock, local, returned, counted, seen>>
    /\ UNCHANGED single_vars

\* clear: let mut list = self.write_entries();
ClearLock(t) ==
    /\ t \in Clearers
    /\ pc[t] = "idle"
    /\ WriteLockFree
    /\ lock' = [lock EXCEPT !.writer = t]
    /\ pc' = [pc EXCEPT ![t] = "clear"]
    /\ UNCHANGED <<list, update_counter, ignored, n_changed, local, returned, counted, seen>>
    /\ UNCHANGED single_vars

\* clear: list.clear();
ClearList(t) ==
    /\ pc[t] = "clear"
    /\ list' = [list EXCEPT !["fake"] = EmptyMap]
    /\ counted' = {}
    /\ seen' = {}
    /\ pc' = [pc EXCEPT ![t] = "swap"]
    /\ UNCHANGED <<update_counter, ignored, n_changed, lock, local, returned>>
    /\ UNCHANGED single_vars

\* clear: self.update_counter.swap(0, Ordering::Relaxed)
ClearSwap(t) ==
    /\ pc[t] = "swap"
    /\ local' = [local EXCEPT ![t].counter = update_counter["fake"]]
    /\ update_counter' = [update_counter EXCEPT !["fake"] = 0]
    /\ pc' = [pc EXCEPT ![t] = "return"]
    /\ UNCHANGED <<list, ignored, n_changed, lock, returned, counted, seen>>
    /\ UNCHANGED single_vars

\* clear: the swapped-out value is returned and the write guard is dropped.
ClearReturn(t) ==
    /\ t \in Clearers
    /\ pc[t] = "return"
    /\ returned' = (returned + local[t].counter) % UsizeModulus
    /\ lock' = WriteUnlock(t)
    /\ pc' = [pc EXCEPT ![t] = "idle"]
    /\ local' = [local EXCEPT ![t] = NoLocals]
    /\ UNCHANGED <<list, update_counter, ignored, n_changed, counted, seen>>
    /\ UNCHANGED single_vars

\* get_update_counter: self.update_counter.load(Ordering::Relaxed), no lock.
ReaderLoad(t) ==
    /\ t \in Readers
    /\ pc[t] = "idle"
    /\ local' = [local EXCEPT ![t].counter = update_counter["fake"]]
    /\ seen' = counted
    /\ pc' = [pc EXCEPT ![t] = "loaded"]
    /\ UNCHANGED <<list, update_counter, ignored, n_changed, lock, returned, counted>>
    /\ UNCHANGED single_vars

\* contains_rumor, with_rumor, encode, ...: let list = self.read_entries();
ReaderLock(t) ==
    /\ t \in Readers
    /\ pc[t] = "loaded"
    /\ ReadLockFree
    /\ lock' = [lock EXCEPT !.readers = @ \cup {t}]
    /\ pc' = [pc EXCEPT ![t] = "reading"]
    /\ UNCHANGED <<list, update_counter, ignored, n_changed, local, returned, counted, seen>>
    /\ UNCHANGED single_vars

\* The read is done and the read guard is dropped.
ReaderReturn(t) ==
    /\ t \in Readers
    /\ pc[t] = "reading"
    /\ lock' = [lock EXCEPT !.readers = @ \ {t}]
    /\ pc' = [pc EXCEPT ![t] = "idle"]
    /\ local' = [local EXCEPT ![t] = NoLocals]
    /\ UNCHANGED <<list, update_counter, ignored, n_changed, returned, counted, seen>>
    /\ UNCHANGED single_vars

NextShared ==
    \/ \E t \in Inserters : \E rumor \in ThreadRumors : InsertLock(t, rumor)
    \/ \E t \in Inserters : InsertApply(t)
    \/ \E t \in Inserters : InsertCount(t)
    \/ \E t \in Inserters : InsertReturn(t)
    \/ \E t \in Clearers : ClearLock(t)
    \/ \E t \in Clearers : ClearList(t)
    \/ \E t \in Clearers : ClearSwap(t)
    \/ \E t \in Clearers : ClearReturn(t)
    \/ \E t \in Readers : ReaderLoad(t)
    \/ \E t \in Readers : ReaderLock(t)
    \/ \E t \in Readers : ReaderReturn(t)

SpecShared == InitShared /\ [][NextShared]_vars

\* ------------------------------------- purge and projection among threads
\* purge_expired, the Serialize of the store, remove and expire_all_for_key
\* run next to insert and clear on one RumorStore<FakeRumor>.  purge_expired
\* collects the expired rumors under a read guard, drops the guard, and calls
\* remove, which takes the write guard, for each of them.  Serialize writes
\* the list under a read guard, drops it, and loads the counter.

\* The rumors the inserting thread offers: one id, expired long ago or never.
PurgeRumors == {FakeRumor("m1", e) : e \in ExpirationInputs(0)}

\* The locals of a purge: the date, the expired rumors still to remove, and
\* the one being removed.
PurgeLocals(at, expired, rumor) ==
    [rumor |-> rumor, result |-> FALSE, counter |-> 0, at |-> at, expired |-> expired]

\* The locals of Serialize: the list and the counter written so far, and the
\* counter as it stood when the list was written.
SerializeLocals(m, list_counter, counter) ==
    [rumor |-> NoRumor, result |-> FALSE, counter |-> counter, list |-> m,
     list_counter |-> list_counter]

InitPurge ==
    /\ scope = {"fake"}
    /\ list = [k \in scope |-> EmptyMap]
    /\ update_counter = [k \in scope |-> 0]
    /\ ignored = [k \in scope |-> 0]
    /\ now = 0
    /\ counter0 = update_counter
    /\ n_changed = [k \in scope |-> 0]
    /\ list2 = [k \in scope |-> EmptyMap]
    /\ update_counter2 = [k \in scope |-> 0]
    /\ pending1 = {}
    /\ pending2 = {}
    /\ InitThreads

\* partitioned_rumors: self.read_entries()
PurgeScanLock(t, at) ==
    /\ t \in Purgers
    /\ pc[t] = "idle"
    /\ ReadLockFree
    /\ lock' = [lock EXCEPT !.readers = @ \cup {t}]
    /\ local' = [local EXCEPT ![t] = PurgeLocals(at, {}, NoRumor)]
    /\ pc' = [pc EXCEPT ![t] = "scan"]
    /\ UNCHANGED <<list, update_counter, ignored, n_changed, returned, counted, seen>>
    /\ UNCHANGED single_vars

\* expired_rumors that returns with the read guard still held.
PurgeScanKeepsGuard(t) ==
    /\ t \in Purgers
    /\ pc[t] = "scan"
    /\ local' = [local EXCEPT ![t].expired = ExpiredRumors(list["fake"], local[t].at)]
    /\ pc' = [pc EXCEPT ![t] = "each"]
    /\ UNCHANGED <<list, update_counter, ignored, n_changed, lock, returned, counted, seen>>
    /\ UNCHANGED single_vars

\* expired_rumors: the expired rumors are cloned into a Vec and the read guard
\* is dropped.
PurgeScan(t) ==
    /\ t \in Purgers
    /\ pc[t] = "scan"
    /\ local' = [local EXCEPT ![t].expired = ExpiredRumors(list["fake"], local[t].at)]
    /\ lock' = [lock EXCEPT !.readers = @ \ {t}]
    /\ pc' = [pc EXCEPT ![t] = "each"]
    /\ UNCHANGED <<list, update_counter, ignored, n_changed, returned, counted, seen>>
    /\ UNCHANGED single_vars

\* for_each: self.remove(r.key(), r.id()) takes the write guard
PurgeRemoveLock(t, r) ==
    /\ t \in Purgers
    /\ pc[t] = "each"
    /\ r \in local[t].expired
    /\ WriteLockFree
    /\ lock' = [lock EXCEPT !.writer = t]
    /\ local' = [local EXCEPT ![t].rumor = r, ![t].expired = @ \ {r}]
    /\ pc' = [pc EXCEPT ![t] = "remove"]
    /\ UNCHANGED <<list, update_counter, ignored, n_changed, returned, counted, seen>>
    /\ UNCHANGED single_vars

\* remove: the entry at (key, id) is removed and the write guard is dropped.
PurgeRemove(t) ==
    /\ t \in Purgers
    /\ pc[t] = "remove"
    /\ list' = [list EXCEPT !["fake"] = RemoveStore(@, local[t].rumor.key, local[t].rumor.id)]
    /\ lock' = WriteUnlock(t)
    /\ pc' = [pc EXCEPT ![t] = "each"]
    /\ UNCHANGED <<update_counter, ignored, n_changed, local, returned, counted, seen>>
    /\ UNCHANGED single_vars

\* purge_expired returns when the Vec is exhausted.
PurgeReturn(t) ==
    /\ t \in Purgers
    /\ pc[t] = "each"
    /\ local[t].expired = {}
    /\ pc' = [pc EXCEPT ![t] = "idle"]
    /\ local' = [local EXCEPT ![t] = NoLocals]
    /\ UNCHANGED <<list, update_counter, ignored, n_changed, lock, returned, counted, seen>>
    /\ UNCHANGED single_vars

\* Serialize: self.list.read().unwrap()
SerializeLock(t) ==
    /\ t \in Serializers
    /\ pc[t] = "idle"
    /\ ReadLockFree
    /\ lock' = [lock EXCEPT !.readers = @ \cup {t}]
    /\ pc' = [pc EXCEPT ![t] = "list"]
    /\ UNCHANGED <<list, update_counter, ignored, n_changed, local, returned, counted, seen>>
    /\ UNCHANGED single_vars

\* Serialize: the field "list" is written and the read guard is dropped.
SerializeList(t) ==
    /\ t \in Serializers
    /\ pc[t] = "list"
    /\ local' = [local EXCEPT ![t] = SerializeLocals(list["fake"], update_counter["fake"], 0)]
    /\ lock' = [lock EXCEPT !.readers = @ \ {t}]
    /\ pc' = [pc EXCEPT ![t] = "update_counter"]
    /\ UNCHANGED <<list, update_counter, ignored, n_changed, returned, counted, seen>>
    /\ UNCHANGED single_vars

\* Serialize: the field "update_counter" is written from get_update_counter().
SerializeCounter(t) ==
    /\ t \in Serializers
    /\ pc[t] = "update_counter"
    /\ local' = [local EXCEPT ![t].counter = update_counter["fake"]]
    /\ pc' = [pc EXCEPT ![t] = "end"]
    /\ UNCHANGED <<list, update_counter, ignored, n_changed, lock, returned, counted, seen>>
    /\ UNCHANGED single_vars

\* Serialize: strukt.end()
SerializeEnd(t) ==
    /\ t \in Serializers
    /\ pc[t] = "end"
    /\ pc' = [pc EXCEPT ![t] = "idle"]
    /\ local' = [local EXCEPT ![t] = NoLocals]
    /\ UNCHANGED <<list, update_counter, ignored, n_changed, lock, returned, counted, seen>>
    /\ UNCHANGED single_vars

\* remove: let mut list = self.write_entries();
RemoveLock(t, key, id) ==
    /\ t \in Mutators
    /\ pc[t] = "idle"
    /\ WriteLockFree
    /\ lock' = [lock EXCEPT !.writer = t]
    /\ local' = [local EXCEPT ![t].rumor = FakeRumor(id, 0)]
    /\ pc' = [pc EXCEPT ![t] = "remove"]
    /\ UNCHANGED <<list, update_counter, ignored, n_changed, returned, counted, seen>>
    /\ UNCHANGED single_vars

\* remove: list.get_mut(key).and_then(|r| r.remove(id)); the guard is dropped.
RemoveUnlock(t) ==
    /\ t \in Mutators
    /\ pc[t] = "remove"
    /\ list' = [list EXCEPT !["fake"] = RemoveStore(@, local[t].rumor.key, local[t].rumor.id)]
    /\ lock' = WriteUnlock(t)
    /\ pc' = [pc EXCEPT ![t] = "idle"]
    /\ local' = [local EXCEPT ![t] = NoLocals]
    /\ UNCHANGED <<update_counter, ignored, n_changed, returned, counted, seen>>
    /\ UNCHANGED single_vars

\* expire_all_for_key: self.write_entries().get_mut(key)
ExpireLock(t, key) ==
    /\ t \in Mutators
    /\ pc[t] = "idle"
    /\ WriteLockFree
    /\ lock' = [lock EXCEPT !.writer = t]
    /\ local' = [local EXCEPT ![t].rumor = [NoRumor EXCEPT !.key = key]]
    /\ pc' = [pc EXCEPT ![t] = "expire"]
    /\ UNCHANGED <<list, update_counter, ignored, n_changed, returned, counted, seen>>
    /\ UNCHANGED single_vars

\* expire_all_for_key: m.values_mut().for_each(Rumor::expire); the guard is
\* dropped.
ExpireUnlock(t) ==
    /\ t \in Mutators
    /\ pc[t] = "expire"
    /\ list' = [list EXCEPT !["fake"] = ExpireStore(@, local[t].rumor.key, now)]
    /\ lock' = WriteUnlock(t)
    /\ pc' = [pc EXCEPT ![t] = "idle"]
    /\ local' = [local EXCEPT ![t] = NoLocals]
    /\ UNCHANGED <<update_counter, ignored, n_changed, returned, counted, seen>>
    /\ UNCHANGED single_vars

\* The threads that run next to purge_expired, and the steps of each: an
\* inserter, the clearer, the purger (whose scan is the read operation that
\* live_rumors, expired_rumors and rumor_keys share), and the thread that
\* removes and expires.
PurgeThreads == {"w1"} \cup Clearers \cup Purgers \cup Mutators

ThreadStep(t) ==
    \/ \E rumor \in PurgeRumors : t = "w1" /\ InsertLock(t, rumor)
    \/ InsertApply(t)
    \/ InsertCount(t)
    \/ InsertReturn(t)
    \/ ClearLock(t)
    \/ ClearList(t)
    \/ ClearSwap(t)
    \/ ClearReturn(t)
    \/ \E at \in AtInputs : PurgeScanLock(t, at)
    \/ PurgeScan(t)
    \/ \E r \in PurgeRumors : PurgeRemoveLock(t, r)
    \/ PurgeRemove(t)
    \/ PurgeReturn(t)
    \/ \E id \in {"m1"} : RemoveLock(t, "fakerton", id)
    \/ RemoveUnlock(t)
    \/ ExpireLock(t, "fakerton")
    \/ ExpireUnlock(t)

NextPurge == \E t \in PurgeThreads : ThreadStep(t)

SpecPurge == InitPurge /\ [][NextPurge]_vars

\* Every thread that is inside an operation is scheduled again, and a thread
\* that waits for the lock gets it if it is free again and again.
SpecPurgeFair ==
    SpecPurge /\ \A t \in PurgeThreads : SF_vars(pc[t] # "idle" /\ ThreadStep(t))

\* The threads that run next to Serialize: an inserter and the clearer.
ProjectionThreads == {"w1"} \cup Clearers \cup Serializers

NextProjection ==
    \E t \in ProjectionThreads :
        \/ \E rumor \in PurgeRumors : t = "w1" /\ InsertLock(t, rumor)
        \/ InsertApply(t)
        \/ InsertCount(t)
        \/ InsertReturn(t)
        \/ ClearLock(t)
        \/ ClearList(t)
        \/ ClearSwap(t)
        \/ ClearReturn(t)
        \/ SerializeLock(t)
        \/ SerializeList(t)
        \/ SerializeCounter(t)
        \/ SerializeEnd(t)

SpecProjection == InitPurge /\ [][NextProjection]_vars

\* ------------------------------------------------------ the envelope codec
\* RumorEnvelope::encode and RumorEnvelope::decode are functions of their
\* argument; each step calls one of them and keeps input and output.

\* The kind tags tried on the wire run from 0 to MaxTag.
MaxTag == 10

\* The rumor types that travel in envelopes.
WireKinds == {"member", "departure", "service", "service-config", "service-file",
              "election", "election-update"}

\* The envelopes handed to encode: the type tag is the one of the rumor.
Envelopes ==
    UNION {{RumorEnvelope(k, f, r) : f \in Members, r \in RumorInputs(k, 0)} : k \in WireKinds}

\* The payloads found in messages that did not come from encode.
WirePayloads ==
    {None} \cup {Some(ToPayload(r)) : r \in RumorInputs("departure", 0)
                                          \cup RumorInputs("service-file", 0)}

\* Messages that did not come from encode: any kind tag, with or without
\* from_id and payload; and one without the type.
WireInputs ==
    {ProstEncode([type |-> n, tag |-> <<>>, from_id |-> f, payload |-> pl]) :
        n \in 0 .. MaxTag, f \in {None, Some("m1")}, pl \in WirePayloads}
    \cup {<<<<2, "m1">>>>}

\* The variables the codec leaves alone.
store_vars == <<scope, list, update_counter, ignored, now, counter0, n_changed,
                list2, update_counter2, pending1, pending2>>

InitCodec ==
    /\ scope = {"fake"}
    /\ list = [k \in scope |-> EmptyMap]
    /\ update_counter = [k \in scope |-> 0]
    /\ ignored = [k \in scope |-> 0]
    /\ now = 0
    /\ counter0 = update_counter
    /\ n_changed = [k \in scope |-> 0]
    /\ list2 = [k \in scope |-> EmptyMap]
    /\ update_counter2 = [k \in scope |-> 0]
    /\ pending1 = {}
    /\ pending2 = {}
    /\ InitThreads

\* value.encode()
Encode(value) ==
    /\ call' = [op |-> "encode", input |-> value, output |-> EnvelopeEncode(value)]
    /\ UNCHANGED store_vars
    /\ UNCHANGED thread_vars

\* RumorEnvelope::decode(bytes) of a message from the wire
Decode(bytes) ==
    /\ call' = [op |-> "decode", input |-> bytes, output |-> EnvelopeDecode(bytes, now),
                sent |-> None]
    /\ UNCHANGED store_vars
    /\ UNCHANGED thread_vars

\* RumorEnvelope::decode(bytes) of the bytes encode has just produced
DecodeEncoded ==
    /\ call.op = "encode"
    /\ IsOk(call.output)
    /\ call' = [op |-> "decode", input |-> call.output.ok,
                output |-> EnvelopeDecode(call.output.ok, now),
                sent |-> Some(call.input)]
    /\ UNCHANGED store_vars
    /\ UNCHANGED thread_vars

NextCodec ==
    \/ \E value \in Envelopes : Encode(value)
    \/ \E bytes \in WireInputs : Decode(bytes)
    \/ DecodeEncoded

SpecCodec == InitCodec /\ [][NextCodec]_vars

\* ------------------------------------------------- queries on service groups
\* min_member_id_with is a function of the store, the group, the predicate
\* and the order in which the inner map yields its keys.

\* A Service store that holds, for group "g", the services of a set of members.
ServiceStores ==
    {[k \in {"g"} |-> [id \in S |-> Service("g", id, 1, "p", Forever(0))]] : S \in SUBSET QueryIds}
    \cup {EmptyMap}

InitQuery ==
    /\ scope = {"service"}
    /\ list \in {[k \in scope |-> m] : m \in ServiceStores}
    /\ update_counter = [k \in scope |-> Cardinality(Entries(list["service"])) % UsizeModulus]
    /\ ignored = [k \in scope |-> 0]
    /\ now = 0
    /\ counter0 = [k \in scope |-> 0]
    /\ n_changed = update_counter
    /\ list2 = [k \in scope |-> EmptyMap]
    /\ update_counter2 = [k \in scope |-> 0]
    /\ pending1 = {}
    /\ pending2 = {}
    /\ InitThreads

\* rs.min_member_id_with(service_group, predicate)
MinQuery(service_group, predicate, order) ==
    /\ call' = [op |-> "min_member_id_with",
                input |-> [service_group |-> service_group, predicate |-> predicate,
                           order |-> order],
                output |-> MinMemberIdWith(list["service"], service_group, predicate, order)]
    /\ UNCHANGED store_vars
    /\ UNCHANGED thread_vars

NextQuery ==
    \E service_group \in {"g", "nokey"} : \E predicate \in SUBSET QueryIds :
        \E order \in Orders(IF service_group \in DOMAIN list["service"]
                            THEN DOMAIN list["service"][service_group] ELSE {}) :
            MinQuery(service_group, predicate, order)

SpecQuery == InitQuery /\ [][NextQuery]_vars

\* ------------------------------------------------------------------ json_u64
\* The width of u64 in the model: the values run from 0 to U64Max.
U64Bits == 4

U64Max == 2 ^ U64Bits - 1

\* The longest string handed to deserialize.
MaxStrLen == 3

\* The decimal digits, and the characters strings are made of.
Digits == <<"0", "1", "2", "3", "4", "5", "6", "7", "8", "9">>

Chars == Range(Digits) \cup {"+", "-", "a"}

\* char::to_digit(10)
ToDigit(c) == IF c \in Range(Digits)
              THEN Some((CHOOSE i \in DOMAIN Digits : Digits[i] = c) - 1)
              ELSE None

\* format!("{}", num): the decimal digits of num, without leading zeros.
RECURSIVE Format(_)
Format(num) ==
    IF num < 10 THEN <<Digits[num + 1]>>
    ELSE Format(num \div 10) \o <<Digits[(num % 10) + 1]>>

\* The JSON values: a string, a number.
JsonString(s) == [str |-> s]

JsonNumber(n) == [num |-> n]

\* json_u64::serialize that hands the number itself to the serializer.
JsonU64SerializeAsNumber(num) == Ok(JsonNumber(num))

\* json_u64::serialize
JsonU64Serialize(num) == Ok(JsonString(Format(num)))

\* The digits of str::parse::<u64>, from the left: an invalid digit or an
\* overflow ends the parse.
RECURSIVE ParseDigits(_, _)
ParseDigits(result, digits) ==
    IF digits = <<>> THEN Ok(result)
    ELSE LET d == ToDigit(Head(digits))
         IN  IF ~IsSome(d) THEN Err("InvalidDigit")
             ELSE IF result * 10 > U64Max THEN Err("PosOverflow")
             ELSE IF result * 10 + d.some > U64Max THEN Err("PosOverflow")
             ELSE ParseDigits(result * 10 + d.some, Tail(digits))

\* str::parse::<u64>
ParseU64(s) ==
    IF s = <<>> THEN Err("Empty")
    ELSE IF Len(s) = 1 /\ s[1] \in {"+", "-"} THEN Err("InvalidDigit")
    ELSE IF s[1] = "+" THEN ParseDigits(0, Tail(s))
    ELSE ParseDigits(0, s)

\* json_u64::deserialize
JsonU64Deserialize(json) ==
    IF DOMAIN json # {"str"} THEN Err("invalid type")
    ELSE ParseU64(json.str)

\* The strings of at most MaxStrLen characters, and the JSON values handed to
\* deserialize.
Strings == UNION {[1 .. n -> Chars] : n \in 0 .. MaxStrLen}

JsonInputs == {JsonString(s) : s \in Strings} \cup {JsonNumber(n) : n \in 0 .. U64Max}

\* No store is in use and no thread runs in the calls of the API client.
InitClient ==
    /\ scope = {"fake"}
    /\ list = [k \in scope |-> EmptyMap]
    /\ update_counter = [k \in scope |-> 0]
    /\ ignored = [k \in scope |-> 0]
    /\ now = 0
    /\ counter0 = update_counter
    /\ n_changed = [k \in scope |-> 0]
    /\ list2 = [k \in scope |-> EmptyMap]
    /\ update_counter2 = [k \in scope |-> 0]
    /\ pending1 = {}
    /\ pending2 = {}
    /\ lock = [writer |-> "none", readers |-> {}]
    /\ pc = [t \in Threads |-> "idle"]
    /\ local = [t \in Threads |-> NoLocals]
    /\ returned = 0
    /\ counted = {}
    /\ seen = {}

\* The argument of the call is drawn first; the call is made on it.
InitJson ==
    /\ InitClient
    /\ call \in {[op |-> "num", input |-> num] : num \in 0 .. U64Max}
                \cup {[op |-> "json", input |-> json] : json \in JsonInputs}

\* json_u64::serialize(&num, serializer)
Serialize(num) ==
    /\ call.op = "num"
    /\ call.input = num
    /\ call' = [op |-> "serialize", input |-> num, output |-> JsonU64Serialize(num)]
    /\ UNCHANGED store_vars
    /\ UNCHANGED thread_vars

\* json_u64::deserialize(deserializer) of a JSON value
Deserialize(json) ==
    /\ call.op = "json"
    /\ call.input = json
    /\ call' = [op |-> "deserialize", input |-> json, output |-> JsonU64Deserialize(json),
                sent |-> None]
    /\ UNCHANGED store_vars
    /\ UNCHANGED thread_vars

\* json_u64::deserialize of the value serialize has just produced
DeserializeSerialized ==
    /\ call.op = "serialize"
    /\ IsOk(call.output)
    /\ call' = [op |-> "deserialize", input |-> call.output.ok,
                output |-> JsonU64Deserialize(call.output.ok),
                sent |-> Some(call.input)]
    /\ UNCHANGED store_vars
    /\ UNCHANGED thread_vars

NextJson ==
    \/ \E num \in 0 .. U64Max : Serialize(num)
    \/ \E json \in JsonInputs : Deserialize(json)
    \/ DeserializeSerialized

SpecJson == InitJson /\ [][NextJson]_vars

\* ------------------------------------------------------- search_package_impl
\* The loop of search_package_impl: `call` holds its arguments and locals.
\* Each turn of the loop is two steps: the call of search_with_range, whose
\* answer is chosen by the page source, and the rest of the loop body.

\* The largest limit, the longest page and the largest total_count tried.
MaxLimit == 3

MaxPage == 2

MaxTotal == 2

PackageIdents == {"one_a", "one_b"}

\* total_count as usize
AsUsize(n) == n % UsizeModulus

\* Vec::truncate
Truncate(vec, len) == IF Len(vec) > len THEN SubSeq(vec, 1, len) ELSE vec

\* What search_with_range may answer: an error, or a page (of any length,
\* the empty one included, with any total_count) and whether more follows.
PageResponses ==
    {Err("BadResponseBody")}
    \cup {Ok([data |-> data, total_count |-> total_count, more_to_come |-> more_to_come]) :
            data \in UNION {[1 .. n -> PackageIdents] : n \in 0 .. MaxPage},
            total_count \in -1 .. MaxTotal,
            more_to_come \in BOOLEAN}

\* The entry of search_package_impl(search_term, limit, token, ..)
SearchCall(limit) ==
    [op |-> "search_package_impl", pc |-> "loop", limit |-> limit, packages |-> <<>>]

InitSearch ==
    /\ InitClient
    /\ call \in {SearchCall(limit) : limit \in 0 .. MaxLimit}

\* The range handed to search_with_range
SearchRange(packages) == Len(packages)

\* The test of the loop that goes on until the limit is exceeded.
SearchReturnsPastLimit(packages, limit, more_to_come) ==
    Len(packages) > limit \/ ~more_to_come

\* The test of the loop: packages.len() >= limit || !more_to_come
SearchReturns(packages, limit, more_to_come) ==
    Len(packages) >= limit \/ ~more_to_come

\* search_with_range(self, search_term, token, packages.len())
SearchWithRange(response) ==
    /\ call.op = "search_package_impl"
    /\ call.pc = "loop"
    /\ call' = [op |-> call.op, pc |-> "fetched", limit |-> call.limit,
                packages |-> call.packages,
                range |-> SearchRange(call.packages), response |-> response]
    /\ UNCHANGED store_vars
    /\ UNCHANGED thread_vars

\* The ? on the answer, append, the test, truncate and return
SearchAppend ==
    /\ call.op = "search_package_impl"
    /\ call.pc = "fetched"
    /\ call' =
          IF ~IsOk(call.response)
          THEN [op |-> call.op, pc |-> "done", limit |-> call.limit,
                packages |-> call.packages, last |-> call.response,
                result |-> call.response]
          ELSE LET page == call.response.ok
                   packages == call.packages \o page.data
               IN  IF SearchReturns(packages, call.limit, page.more_to_come)
                   THEN [op |-> call.op, pc |-> "done", limit |-> call.limit,
                         packages |-> packages, last |-> call.response,
                         result |-> Ok(<<Truncate(packages, call.limit),
                                         AsUsize(page.total_count)>>)]
                   ELSE [op |-> call.op, pc |-> "loop", limit |-> call.limit,
                         packages |-> packages]
    /\ UNCHANGED store_vars
    /\ UNCHANGED thread_vars

NextSearch ==
    \/ \E response \in PageResponses : SearchWithRange(response)
    \/ SearchAppend

SpecSearch == InitSearch /\ [][NextSearch]_vars

\* The thread that runs the search is scheduled, and search_with_range
\* answers every call.
SpecSearchFair == SpecSearch /\ WF_vars(NextSearch)

\* ------------------------------------------------------------------ claims
\* What rs.insert(rumor) does to the store of the rumor's type as it stands.
InsertNow(rumor) ==
    InsertStore(list[rumor.kind], update_counter[rumor.kind], ignored[rumor.kind], rumor,
                KnownDeparted(list["departure"], rumor))

Occupied(rumor) == ContainsRumor(list[rumor.kind], rumor.key, rumor.id)

Stored(rumor) == GetRumor(list[rumor.kind], rumor.key, rumor.id)

\* The rumors that can be offered to the stores of this run.
Offered == UNION {RumorInputs(k, now) : k \in Receiving(scope)}

\* C1: for any sequence of inserts with no intervening clear, the update
\* counter minus its initial value (mod 2^w) equals the number of inserts that
\* returned true, and an insert that returns false leaves the counter unchanged.
CounterChangeEquivalence ==
    /\ \A k \in Receiving(scope) : update_counter[k] = (counter0[k] + n_changed[k]) % UsizeModulus
    /\ \A rumor \in Offered :
          ~InsertNow(rumor).result => InsertNow(rumor).update_counter = update_counter[rumor.kind]

\* Three inserts returned true, the counter wrapped around, one insert was
\* ignored and the next insert of a stored rumor returns false.
CounterChangeWitness ==
    \E k \in scope :
        /\ n_changed[k] = 3
        /\ update_counter[k] < counter0[k]
        /\ ignored[k] = 1
        /\ \E rumor \in RumorInputs(k, now) : ~InsertNow(rumor).result

\* C2: insert returns true and installs the rumor when nothing is stored at
\* (key, id); otherwise it merges the incoming rumor into the stored one and
\* returns what merge returned.
InsertInstallsOrMerges ==
    \A rumor \in Offered :
        LET res == InsertNow(rumor)
            after == GetRumor(res.list, rumor.key, rumor.id)
            merged == Merge(Stored(rumor), rumor, KnownDeparted(list["departure"], rumor))
        IN  IF ~Occupied(rumor)
            THEN res.result /\ after = rumor
            ELSE res.result = merged.changed /\ after = merged.rumor

\* A FakeRumor is stored, inserting it once more was ignored.
ReinsertReturnsFalseWitness ==
    /\ scope = {"fake"}
    /\ ContainsRumor(list["fake"], "fakerton", "m1")
    /\ n_changed["fake"] = 1
    /\ ignored["fake"] = 1
    /\ ~InsertNow(Stored(FakeRumor("m1", 0))).result

\* Every stored rumor sits under its own key and id, in the store of its type.
Uniqueness ==
    \A k \in Receiving(scope) : \A key \in DOMAIN list[k] : \A id \in DOMAIN list[k][key] :
        /\ list[k][key][id].key = key
        /\ list[k][key][id].id = id
        /\ list[k][key][id].kind = k

\* The entries of the store of type k that a step keeps and changes.
ChangedEntries(k) ==
    {e \in Entries(list[k]) \cap Entries(list'[k]) : list'[k][e[1]][e[2]] # list[k][e[1]][e[2]]}

\* The entry was changed by merging some rumor of its key and id into it.
ChangedByMerge(k, e) ==
    \E rumor \in RumorInputs(k, now) :
        /\ rumor.key = e[1] /\ rumor.id = e[2]
        /\ Insert(rumor)
        /\ list'[k][e[1]][e[2]] =
               Merge(list[k][e[1]][e[2]], rumor, KnownDeparted(list["departure"], rumor)).rumor

\* The entry was changed by expire(), called from expire_all_for_key.
ChangedByExpire(k, e) ==
    /\ ExpireAllForKey(k, e[1])
    /\ list'[k][e[1]][e[2]] = [list[k][e[1]][e[2]] EXCEPT !.expiration = Soon(now)]
    /\ \A x \in Entries(list[k]) : x[1] # e[1] => list'[k][x[1]][x[2]] = list[k][x[1]][x[2]]

\* C3 as stated: every stored rumor sits under its key and id, and an existing
\* entry is only ever changed through merge.
UniquenessChangedOnlyByMerge ==
    /\ []Uniqueness
    /\ [][\A k \in Receiving(scope) : \A e \in ChangedEntries(k) : ChangedByMerge(k, e)]_vars

\* C3, amended: every stored rumor sits under its key and id, and an existing
\* entry is only ever changed through merge or, in its expiration alone,
\* through expire_all_for_key.
UniquenessChangedByMergeOrExpire ==
    /\ []Uniqueness
    /\ [][\A k \in Receiving(scope) : \A e \in ChangedEntries(k) :
             ChangedByMerge(k, e) \/ ChangedByExpire(k, e)]_vars

\* Two services are stored for one group; one was replaced through merge by a
\* higher incarnation, the other was expired in place.
UniquenessWitness ==
    /\ scope = {"service"}
    /\ LenForKey(list["service"], "g") = 2
    /\ n_changed["service"] = 3
    /\ \E id \in Members : list["service"]["g"][id].incarnation = 2
    /\ \E id \in Members : list["service"]["g"][id].expiration = Soon(now)

\* C4: a set of rumors inserted into two empty stores in two orders leaves
\* both stores in the same state.
Convergence ==
    (pending1 = {} /\ pending2 = {}) => list = list2

IncarnationKinds == {"service", "service-config", "service-file"}

\* C5: for Service, ServiceConfig and ServiceFile the stored incarnation never
\* decreases on insert; a strictly higher incarnation replaces the stored
\* rumor and returns true, an equal or lower one changes nothing and returns
\* false.
IncarnationLastWriterWins ==
    \A rumor \in Offered :
        rumor.kind \in IncarnationKinds =>
            LET m == list[rumor.kind]
                res == InsertNow(rumor)
            IN  /\ \A e \in Entries(m) :
                      /\ e \in Entries(res.list)
                      /\ res.list[e[1]][e[2]].incarnation >= m[e[1]][e[2]].incarnation
                /\ (Occupied(rumor) /\ rumor.incarnation > Stored(rumor).incarnation) =>
                      /\ res.result
                      /\ GetRumor(res.list, rumor.key, rumor.id) = rumor
                /\ (Occupied(rumor) /\ rumor.incarnation <= Stored(rumor).incarnation) =>
                      /\ ~res.result
                      /\ res.list = m

\* Incarnation 1 then 2 under one key: one rumor, incarnation 2, counter + 2.
IncarnationWitness ==
    /\ scope = {"service"}
    /\ LenForKey(list["service"], "g") = 1
    /\ GetRumor(list["service"], "g", "m1").incarnation = 2
    /\ n_changed["service"] = 2
    /\ update_counter["service"] = (counter0["service"] + 2) % UsizeModulus

ElectionKinds == {"election", "election-update"}

\* C6: the stored election term of a group never decreases on insert; a
\* strictly higher term adopts the incoming rumor wholesale and increments the
\* counter by one, a strictly lower term leaves rumor and counter unchanged and
\* returns false.
ElectionTermMonotonic ==
    \A rumor \in Offered :
        rumor.kind \in ElectionKinds =>
            LET m == list[rumor.kind]
                c == update_counter[rumor.kind]
                res == InsertNow(rumor)
            IN  /\ \A e \in Entries(m) :
                      /\ e \in Entries(res.list)
                      /\ res.list[e[1]][e[2]].term >= m[e[1]][e[2]].term
                /\ (Occupied(rumor) /\ rumor.term > Stored(rumor).term) =>
                      /\ res.result
                      /\ GetRumor(res.list, rumor.key, rumor.id) = rumor
                      /\ res.update_counter = (c + 1) % UsizeModulus
                /\ (Occupied(rumor) /\ rumor.term < Stored(rumor).term) =>
                      /\ ~res.result
                      /\ res.list = m
                      /\ res.update_counter = c

\* An election of term 2 replaced one of term 1, and one of term 1 was
\* offered afterwards and ignored.
ElectionTermWitness ==
    /\ scope = {"election"}
    /\ GetRumor(list["election"], "g", "election").term = 2
    /\ n_changed["election"] = 2
    /\ ignored["election"] = 1

\* C7: once a Departure for member M is inserted, the stored Membership
\* health of M is Departed after every Membership insert for M.
DepartureDominance ==
    [][\A rumor \in RumorInputs("member", now) :
          (Insert(rumor) /\ ContainsRumor(list["departure"], "departure", rumor.id)) =>
              GetRumor(list'["member"], rumor.key, rumor.id).health = "Departed"]_vars

\* C8: the first insert of a Departure for M returns true and increments the
\* counter once; every later one returns false and leaves store and counter
\* unchanged; contains_rumor("departure", M) holds afterwards.
DepartureIdempotent ==
    \A rumor \in Offered :
        rumor.kind = "departure" =>
            LET m == list["departure"]
                c == update_counter["departure"]
                res == InsertNow(rumor)
            IN  /\ ContainsRumor(res.list, "departure", rumor.id)
                /\ ~Occupied(rumor) =>
                      /\ res.result
                      /\ res.update_counter = (c + 1) % UsizeModulus
                /\ Occupied(rumor) =>
                      /\ ~res.result
                      /\ res.list = m
                      /\ res.update_counter = c

\* A Departure was inserted twice: it is stored and the counter moved once.
DepartureWitness ==
    /\ scope = {"departure"}
    /\ ContainsRumor(list["departure"], "departure", "m1")
    /\ n_changed["departure"] = 1
    /\ ignored["departure"] = 1

\* C9: within a term a Finished election is final: an insert of the same term
\* leaves its candidate and phase as they are; a non-Finished election adopts
\* an incoming Finished one of its term; two non-Finished elections of one
\* term only unite their votes and stay non-Finished.
ElectionFinishedFinal ==
    \A rumor \in Offered :
        (rumor.kind \in ElectionKinds /\ Occupied(rumor) /\ rumor.term = Stored(rumor).term) =>
            LET old == Stored(rumor)
                after == GetRumor(InsertNow(rumor).list, rumor.key, rumor.id)
            IN  /\ old.phase = "Finished" =>
                      after.member_id = old.member_id /\ after.phase = old.phase
                /\ (old.phase # "Finished" /\ rumor.phase = "Finished") => after = rumor
                /\ (old.phase # "Finished" /\ rumor.phase # "Finished") =>
                      /\ after = [old EXCEPT !.votes = old.votes \cup rumor.votes]
                      /\ after.phase # "Finished"

\* A Finished election is stored after a Running one of its term adopted it,
\* and a later rumor of that term was ignored.
ElectionFinishedWitness ==
    /\ scope = {"election"}
    /\ GetRumor(list["election"], "g", "election").phase = "Finished"
    /\ GetRumor(list["election"], "g", "election").term = 1
    /\ n_changed["election"] = 2
    /\ ignored["election"] = 1

\* C10: every mutation that changed the stored state leaves the update counter
\* different: an insert that returns true, a remove of a present entry, a
\* purge_expired that drops a rumor, an expire_all_for_key that changes an
\* expiration.
CounterCountsEveryMutation ==
    [][\A k \in scope :
        /\ \A rumor \in RumorInputs(k, now) :
              (Insert(rumor) /\ InsertNow(rumor).result) =>
                  update_counter'[k] # update_counter[k]
        /\ \A key \in KeyInputs(k), id \in IdInputs(k) :
              (Remove(k, key, id) /\ ContainsRumor(list[k], key, id)) =>
                  update_counter'[k] # update_counter[k]
        /\ \A at \in AtInputs :
              (PurgeExpired(k, at) /\ ExpiredRumors(list[k], at) # {}) =>
                  update_counter'[k] # update_counter[k]
        /\ \A key \in KeyInputs(k) :
              (ExpireAllForKey(k, key) /\ list'[k] # list[k]) =>
                  update_counter'[k] # update_counter[k]]_vars

\* C11 as stated: over any sequence of insert, remove, clear, purge_expired and
\* expire_all_for_key, the update counter read after a step is never smaller
\* than the one read before it.
CounterNeverDecreases ==
    [][\A k \in Receiving(scope) : update_counter'[k] >= update_counter[k]]_vars

\* C11, amended: the update counter read after a step is never smaller than
\* the one read before it, except that clear resets it to 0 and that the
\* increment of an insert wraps it from usize::MAX to 0.
CounterDecreasesOnlyByClearOrWrap ==
    [][\A k \in Receiving(scope) :
          \/ update_counter'[k] >= update_counter[k]
          \/ Clear(k) /\ update_counter'[k] = 0
          \/ /\ update_counter[k] = UsizeMax
             /\ update_counter'[k] = 0
             /\ \E rumor \in RumorInputs(k, now) : Insert(rumor) /\ InsertNow(rumor).result]_vars

\* A counter that started at usize::MAX wrapped to 0 and rose again.
CounterRoseAfterWrapWitness ==
    \E k \in scope :
        /\ counter0[k] = UsizeMax
        /\ n_changed[k] = 2
        /\ update_counter[k] = 1

\* C12: incrementing an update counter that stands at usize::MAX yields 0; the
\* counter is always (initial value + number of increments) mod 2^w, where the
\* initial value is the c of RumorStore::new(c) or 0 for a default store.
CounterWraps ==
    /\ IncrementUpdateCounter(UsizeMax) = 0
    /\ \A k \in Receiving(scope) :
          /\ update_counter[k] \in 0 .. UsizeMax
          /\ counter0[k] \in {0, UsizeMax}
          /\ update_counter[k] = (counter0[k] + n_changed[k]) % UsizeModulus
    /\ \A rumor \in Offered :
          (InsertNow(rumor).result /\ update_counter[rumor.kind] = UsizeMax) =>
              InsertNow(rumor).update_counter = 0

\* RumorStore::new(usize::MAX), one FakeRumor inserted: the counter reads 0.
CounterWrapWitness ==
    /\ scope = {"fake"}
    /\ counter0["fake"] = UsizeMax
    /\ n_changed["fake"] = 1
    /\ Entries(list["fake"]) = {<<"fakerton", "m1">>}
    /\ update_counter["fake"] = 0

\* The threads that write: nobody of them is inside an operation.
WritersIdle == \A t \in Inserters \cup Clearers : pc[t] = "idle"

\* C13: clear() is atomic with respect to concurrent inserts: in any
\* interleaving, once the writers are done, the values returned by all clear
\* calls plus the counter add up to the counter the store was built with plus
\* the number of inserts that returned true (mod 2^w); and when clear is about
\* to return, no insert being under way, the store is empty and its counter 0.
ClearAtomic ==
    /\ WritersIdle =>
          (returned + update_counter["fake"]) % UsizeModulus =
              (counter0["fake"] + n_changed["fake"]) % UsizeModulus
    /\ \A t \in Clearers :
          (pc[t] = "return" /\ \A w \in Inserters : pc[w] = "idle") =>
              /\ list["fake"] = EmptyMap
              /\ update_counter["fake"] = 0

\* A clear returned a counter of 2 after two inserts; a third insert came
\* after it, and a second clear is about to return.
ClearAtomicWitness ==
    /\ counter0["fake"] = 0
    /\ n_changed["fake"] = 3
    /\ returned = 2
    /\ pc["c"] = "return"
    /\ local["c"].counter = 1

\* C14: a reader that loads the update counter and then reads the store sees
\* the change of every insert whose increment the loaded value includes (a
\* clear in between wipes them): the counter never shows an increment whose
\* map change a later read does not find.
CountedChangesVisible ==
    \A t \in Readers :
        pc[t] = "reading" =>
            \A e \in seen : ContainsRumor(list["fake"], e[1], e[2])

\* The reader loaded the counter while the inserting thread still held the
\* write guard, and reads the store now: the rumor is there.
CountedChangesWitness ==
    /\ pc["r"] = "reading"
    /\ local["r"].counter = (counter0["fake"] + 2) % UsizeModulus
    /\ seen = {<<"fakerton", "m1">>, <<"fakerton", "m2">>}
    /\ n_changed["fake"] = 2
    /\ returned = 0

\* C15: purge_expired(at), run on its own, removes exactly the rumors whose
\* expiration is strictly earlier than at; the rumors whose expiration is at
\* or later stay, unchanged.
PurgeRemovesExactlyExpired ==
    \A k \in scope : \A at \in AtInputs :
        LET m == list[k]
            m2 == PurgeStore(m, at)
        IN  /\ Entries(m2) \subseteq Entries(m)
            /\ \A e \in Entries(m) :
                  IF m[e[1]][e[2]].expiration < at
                  THEN ~ContainsRumor(m2, e[1], e[2])
                  ELSE ContainsRumor(m2, e[1], e[2]) /\ m2[e[1]][e[2]] = m[e[1]][e[2]]

\* Two services of one group: one expires at this very hour, the other
\* expired before it.
PurgeWitness ==
    /\ scope = {"service"}
    /\ now = 1
    /\ LenForKey(list["service"], "g") = 2
    /\ \E id \in Members : list["service"]["g"][id].expiration = now
    /\ \E id \in Members : list["service"]["g"][id].expiration < now

\* C16 as stated: after expire_all_for_key(group) on a group holding an
\* election, the next purge_expired call drops the election.
ExpiredElectionDroppedByNextPurge ==
    [][\A key \in KeyInputs("election") :
          (ExpireAllForKey("election", key) /\ ContainsRumor(list["election"], key, "election")) =>
              \A at \in AtInputs :
                  ~ContainsRumor(PurgeStore(list'["election"], at), key, "election")]_vars

\* C16, amended: after expire_all_for_key(group) on a group holding an
\* election, a purge_expired call drops the election if and only if its date
\* is later than the new expiration, one hour after the call.
ExpiredElectionDroppedAfterSoon ==
    "election" \in scope =>
        \A key \in KeyInputs("election") : \A at \in AtInputs :
            LET m2 == ExpireStore(list["election"], key, now)
            IN  ContainsRumor(list["election"], key, "election") =>
                    (ContainsRumor(PurgeStore(m2, at), key, "election") <=> at <= Soon(now))

\* The election of a group was expired an hour ago and is still stored.
ExpiredElectionWitness ==
    /\ scope = {"election"}
    /\ now = 1
    /\ ContainsRumor(list["election"], "g", "election")
    /\ list["election"]["g"]["election"].expiration = Soon(0)

\* C17: expire_all_for_key(outer) calls expire() on every rumor stored under
\* outer and on no other; the rumors of the other outer keys, the set of
\* (key, id) pairs and the update counter stay as they are, and nothing
\* changes when outer is not present.
ExpireAllForKeyFrame ==
    [][\A k \in scope : \A key \in KeyInputs(k) :
          ExpireAllForKey(k, key) =>
              /\ update_counter' = update_counter
              /\ DOMAIN list'[k] = DOMAIN list[k]
              /\ Entries(list'[k]) = Entries(list[k])
              /\ \A e \in Entries(list[k]) :
                    list'[k][e[1]][e[2]] =
                        IF e[1] = key THEN Expire(list[k][e[1]][e[2]], now)
                        ELSE list[k][e[1]][e[2]]
              /\ key \notin DOMAIN list[k] => list'[k] = list[k]]_vars

\* Two groups hold a service config; one was expired, the other was not.
ExpireAllForKeyWitness ==
    /\ scope = {"service-config"}
    /\ ContainsRumor(list["service-config"], "g", "service_config")
    /\ ContainsRumor(list["service-config"], "h", "service_config")
    /\ list["service-config"]["g"]["service_config"].expiration = Soon(now)
    /\ list["service-config"]["h"]["service_config"].expiration = Forever(0)

\* C18: for every instant at, live_rumors(at) and expired_rumors(at) split the
\* stored rumors in two: every stored rumor is in exactly one of them, and it
\* is in expired_rumors(at) iff its expiration is strictly earlier than at.
LiveExpiredPartition ==
    \A k \in scope : \A at \in AtInputs :
        LET m == list[k]
            all == {m[e[1]][e[2]] : e \in Entries(m)}
        IN  /\ Cardinality(all) = Cardinality(Entries(m))
            /\ LiveRumors(m, at) \cup ExpiredRumors(m, at) = all
            /\ LiveRumors(m, at) \cap ExpiredRumors(m, at) = {}
            /\ \A r \in all : r \in ExpiredRumors(m, at) <=> r.expiration < at

\* A rumor whose expiration is the instant asked about is stored next to one
\* that never ages out.
LiveExpiredWitness ==
    /\ scope = {"fake"}
    /\ now = 0
    /\ Entries(list["fake"]) = {<<"fakerton", "m1">>, <<"fakerton", "m2">>}
    /\ list["fake"]["fakerton"]["m1"].expiration = now
    /\ list["fake"]["fakerton"]["m2"].expiration = Forever(0)

\* C19: rumor_keys() returns exactly one (kind, id, key) descriptor for every
\* stored rumor that is not expired at the time of the call, and none for an
\* expired one.
RumorKeysDescribeLive ==
    \A k \in scope :
        LET m == list[k]
            live == {e \in Entries(m) : m[e[1]][e[2]].expiration >= now}
        IN  /\ RumorKeys(m, now) = {[kind |-> k, id |-> e[2], key |-> e[1]] : e \in live}
            /\ Cardinality(RumorKeys(m, now)) = Cardinality(live)

\* An expired rumor that was not purged yet is stored next to a live one.
RumorKeysWitness ==
    /\ scope = {"fake"}
    /\ now = 1
    /\ Entries(list["fake"]) = {<<"fakerton", "m1">>, <<"fakerton", "m2">>}
    /\ list["fake"]["fakerton"]["m1"].expiration = 0
    /\ list["fake"]["fakerton"]["m2"].expiration = Forever(0)
    /\ RumorKeys(list["fake"], now) = {[kind |-> "fake", id |-> "m2", key |-> "fakerton"]}

\* C20: remove(outer_key, inner_key) deletes exactly the entry at
\* (outer_key, inner_key) when it is there and leaves every other rumor as it
\* is; when the entry or the outer key is absent the store stays as it is.
RemoveDeletesExactly ==
    \A k \in scope : \A key \in KeyInputs(k), id \in IdInputs(k) :
        LET m == list[k]
            m2 == RemoveStore(m, key, id)
        IN  /\ ~ContainsRumor(m2, key, id)
            /\ Entries(m2) = Entries(m) \ {<<key, id>>}
            /\ \A e \in Entries(m2) : m2[e[1]][e[2]] = m[e[1]][e[2]]
            /\ ~ContainsRumor(m, key, id) => m2 = m

\* Two rumors were inserted under one key and one of them is gone again.
RemoveWitness ==
    /\ scope = {"fake"}
    /\ now = 0
    /\ n_changed["fake"] = 2
    /\ Entries(list["fake"]) = {<<"fakerton", "m2">>}
    /\ list["fake"]["fakerton"]["m2"].expiration = Forever(0)

\* C21: a remove whose target is not in the store reports
\* NonExistentRumor(id, key) to its caller, as encode does for a missing
\* target.
RemoveReportsMissingTarget ==
    \A k \in scope : \A key \in KeyInputs(k), id \in IdInputs(k) :
        ~ContainsRumor(list[k], key, id) =>
            /\ RemoveReturn(list[k], key, id) = Err(NonExistentRumor(id, key))
            /\ RemoveReturn(list[k], key, id) = EncodeStore(list[k], key, id)

\* C22: encode(key, id) returns the bytes of the rumor stored at (key, id)
\* when there is one, and fails with NonExistentRumor(id, key) when the outer
\* key or the inner id is missing.
EncodeReturnsBytesOrNonExistent ==
    \A k \in scope : \A key \in KeyInputs(k), id \in IdInputs(k) :
        EncodeStore(list[k], key, id) =
            IF <<key, id>> \in Entries(list[k])
            THEN WriteToBytes(list[k][key][id])
            ELSE Err(NonExistentRumor(id, key))

\* One FakeRumor is stored: it is encoded as "<id>-<key>", its neighbour and a
\* rumor of an unknown key are reported missing.
EncodeWitness ==
    /\ scope = {"fake"}
    /\ Entries(list["fake"]) = {<<"fakerton", "m1">>}
    /\ EncodeStore(list["fake"], "fakerton", "m1") = Ok("m1-fakerton")
    /\ EncodeStore(list["fake"], "fakerton", "m2") = Err(NonExistentRumor("m2", "fakerton"))
    /\ EncodeStore(list["fake"], "nokey", "m1") = Err(NonExistentRumor("m1", "nokey"))

\* C23: contains_group_without_member(group, member) is true iff rumors are
\* stored for the group and none of them has the inner key member; it is
\* false for a group that holds no rumor at all.
GroupWithoutMemberNeedsRumors ==
    "service" \in scope =>
        \A group \in KeyInputs("service"), member \in IdInputs("service") :
            ContainsGroupWithoutMember(list["service"], group, member) <=>
                /\ LenForKey(list["service"], group) > 0
                /\ ~ContainsRumor(list["service"], group, member)

\* C24: min_member_id_with(group, predicate) returns the smallest, byte by
\* byte, of the inner keys stored under group that satisfy predicate, and None
\* when the group is absent or no inner key satisfies it, whatever the order
\* in which the map yields its keys.
MinMemberIdIsLeast ==
    call.op = "min_member_id_with" =>
        LET m == list["service"]
            g == call.input.service_group
            accepted == IF g \in DOMAIN m THEN DOMAIN m[g] \cap call.input.predicate ELSE {}
        IN  IF accepted = {}
            THEN call.output = None
            ELSE /\ IsSome(call.output)
                 /\ call.output.some \in accepted
                 /\ \A y \in accepted \ {call.output.some} :
                       LexLess(Utf8(call.output.some), Utf8(y))

\* The map yields m2 first; of m1, m10 and m2 the answer is m1, which is a
\* prefix of m10; M3 is stored too and does not satisfy the predicate.
MinMemberIdWitness ==
    /\ call.op = "min_member_id_with"
    /\ call.input.service_group = "g"
    /\ "g" \in DOMAIN list["service"]
    /\ DOMAIN list["service"]["g"] = QueryIds
    /\ call.input.predicate = {"m1", "m10", "m2"}
    /\ call.input.order[1] = "m2"
    /\ call.output = Some("m1")

\* C25: contains_rumor(key, id) is true iff a rumor is stored at (key, id),
\* len_for_key(key) is the number of rumors stored under key, with_rumor(key,
\* id, f) calls f once with that rumor when it exists and not at all
\* otherwise.
ReadsReportStore ==
    \A k \in scope : \A key \in KeyInputs(k), id \in IdInputs(k) :
        LET m == list[k]
        IN  /\ ContainsRumor(m, key, id) <=> <<key, id>> \in Entries(m)
            /\ LenForKey(m, key) = Cardinality({e \in Entries(m) : e[1] = key})
            /\ WithRumor(m, key, id) =
                   IF <<key, id>> \in Entries(m) THEN <<m[key][id]>> ELSE <<>>

\* Two services are stored for one group; a third member is not among them.
ReadsWitness ==
    /\ scope = {"service"}
    /\ LenForKey(list["service"], "g") = 2
    /\ Len(WithRumor(list["service"], "g", "m1")) = 1
    /\ ~ContainsRumor(list["service"], "g", "noid")
    /\ LenForKey(list["service"], "nokey") = 0

\* The rumors share one key and have pairwise distinct ids.
SameKeyDistinctIds(S) ==
    \A r1 \in S : \A r2 \in S : r1.key = r2.key /\ (r1 # r2 => r1.id # r2.id)

\* C26: inserting n rumors that share one key and have pairwise distinct ids
\* into an empty store makes every insert return true, produces one outer
\* entry, keeps each rumor retrievable under its id, and gives
\* len_for_key(key) = n and update counter = n.
DistinctIdsAllInstalled ==
    \A k \in scope :
        (list2[k] = EmptyMap /\ pending2 # {} /\ SameKeyDistinctIds(pending2)) =>
            LET done == pending2 \ pending1
                key == (CHOOSE r \in pending2 : TRUE).key
            IN  /\ n_changed[k] = Cardinality(done) % UsizeModulus
                /\ ignored[k] = 0
                /\ update_counter[k] = Cardinality(done) % UsizeModulus
                /\ DOMAIN list[k] = IF done = {} THEN {} ELSE {key}
                /\ LenForKey(list[k], key) = Cardinality(done)
                /\ \A r \in done : GetRumor(list[k], r.key, r.id) = r

\* Two FakeRumors with ids of their own went into the empty first store.
DistinctIdsWitness ==
    /\ scope = {"fake"}
    /\ pending1 = {}
    /\ Cardinality(pending2) = 2
    /\ SameKeyDistinctIds(pending2)
    /\ list2["fake"] = EmptyMap
    /\ LenForKey(list["fake"], "fakerton") = 2
    /\ update_counter["fake"] = 2

\* C27: every insert increments exactly one counter by exactly one: the
\* update counter of the store when it returns true, the ignored-rumor
\* counter of the rumor's kind when it returns false.
InsertCountsExactlyOne ==
    \A rumor \in Offered :
        LET res == InsertNow(rumor)
            c == update_counter[rumor.kind]
            ign == ignored[rumor.kind]
        IN  IF res.result
            THEN res.update_counter = (c + 1) % UsizeModulus /\ res.ignored = ign
            ELSE res.ignored = (ign + 1) % IgnoredModulus /\ res.update_counter = c

\* In the run of the member list a Departure was stored and offered once
\* more: the ignored counter of the departures moved, the one of the members
\* did not.
InsertCountsWitness ==
    /\ scope = {"member"}
    /\ n_changed["departure"] = 1
    /\ ignored["departure"] = 1
    /\ ignored["member"] = 0
    /\ n_changed["member"] = 1

\* The kind tags of the seven rumor variants.
VariantTags == {RumorTypeAsI32(k) : k \in WireKinds}

\* C28: decode returns ProtocolMismatch("type") for every envelope whose kind
\* tag is not one of the seven rumor variants, and panics for no kind tag.
DecodeRejectsOtherKinds ==
    (call.op = "decode" /\ IsOk(ProstDecode(call.input))) =>
        /\ ProstDecode(call.input).ok.type \notin VariantTags =>
              call.output = Err(ProtocolMismatch("type"))
        /\ "panic" \notin DOMAIN call.output

\* C29: decode fails with ProtocolMismatch("from-id") for every envelope that
\* has a valid kind tag and no from_id; with an unknown kind tag it fails with
\* ProtocolMismatch("type"), from_id missing or not; no envelope is produced
\* in either case.
DecodeChecksTypeBeforeFromId ==
    (call.op = "decode" /\ IsOk(ProstDecode(call.input))) =>
        LET proto == ProstDecode(call.input).ok
            valid == proto.type \in 1 .. Len(RumorTypes)
        IN  /\ (valid /\ proto.from_id = None) =>
                  call.output = Err(ProtocolMismatch("from-id"))
            /\ ~valid => call.output = Err(ProtocolMismatch("type"))
            /\ (~valid \/ proto.from_id = None) => ~IsOk(call.output)

\* A message with an unknown kind tag and without from_id was decoded: the
\* error names the type.
DecodeTypeFirstWitness ==
    /\ call.op = "decode"
    /\ IsOk(ProstDecode(call.input))
    /\ ProstDecode(call.input).ok.type = 0
    /\ ProstDecode(call.input).ok.from_id = None
    /\ call.output = Err(ProtocolMismatch("type"))

\* C30: for every envelope E of the seven rumor variants whose type tag is the
\* one of its kind, decode(encode(E)) succeeds and equals E; an ElectionUpdate
\* envelope, written with an Election payload, comes back as ElectionUpdate.
EnvelopeRoundTrip ==
    (call.op = "decode" /\ IsSome(call.sent)) => call.output = Ok(call.sent.some)

\* An ElectionUpdate envelope went over the wire with an Election payload and
\* was decoded as ElectionUpdate.
EnvelopeRoundTripWitness ==
    /\ call.op = "decode"
    /\ IsSome(call.sent)
    /\ IsOk(ProstDecode(call.input))
    /\ call.sent.some.type = "election-update"
    /\ ProstDecode(call.input).ok.payload.some.variant = "election"
    /\ IsOk(call.output)
    /\ call.output.ok.kind.kind = "election-update"
    /\ call.output.ok.kind.votes = {"m2"}

\* The orders in which the stores of a run may yield their rumors.
YieldOrders(lists) ==
    {f \in [DOMAIN lists -> UNION {Orders(Entries(lists[k])) : k \in DOMAIN lists}] :
        \A k \in DOMAIN lists : f[k] \in Orders(Entries(lists[k]))}

\* C31: for every store state S reachable by inserts,
\* restore_from_bytes(snapshot_bytes(S)) yields a store that holds exactly the
\* rumors of S under the same (key, id) pairs; the restore replaces the state
\* the store had before and increments its update counter by exactly one.
SnapshotRoundTrip ==
    scope \subseteq WireKinds =>
        \A orders \in YieldOrders(list) : \A k \in DOMAIN list :
            LET res == RestoreFromBytes(k, list2[k], update_counter2[k],
                                        SnapshotBytes(list, orders), now)
            IN  /\ res.result = Ok(Unit)
                /\ Entries(res.list) = Entries(list[k])
                /\ \A e \in Entries(list[k]) : res.list[e[1]][e[2]] = list[k][e[1]][e[2]]
                /\ res.update_counter = (update_counter2[k] + 1) % UsizeModulus

\* The first store holds two services, the second one has taken in one of
\* them so far; the snapshot of the first is restored over the second.
SnapshotRoundTripWitness ==
    /\ scope = {"service"}
    /\ Cardinality(Entries(list["service"])) = 2
    /\ Cardinality(Entries(list2["service"])) = 1
    /\ \E orders \in YieldOrders(list) :
          LET res == RestoreFromBytes("service", list2["service"], update_counter2["service"],
                                      SnapshotBytes(list, orders), now)
          IN  /\ res.list = list["service"]
              /\ res.list # list2["service"]
              /\ res.update_counter = 2

\* The stores whose projection collapses the inner key.
CollapsedKinds == {"election", "election-update", "service-config"}

\* The inner key under which the rumors of a variant are stored.
FixedInnerKey(kind) == CHOOSE id \in IdInputs(kind) : \A r \in RumorInputs(kind, 0) : r.id = id

\* C32: the Election, ElectionUpdate and ServiceConfig projections contain an
\* entry for a service group iff a rumor of the variant is stored for the
\* group under the variant's fixed inner key, and the entry's value is that
\* rumor; no group is projected with an absent rumor.
ProjectionShowsStoredRumors ==
    \A k \in scope \cap CollapsedKinds :
        LET projection == ProxySerialize(k, list[k])
        IN  \A group \in KeyInputs(k) \cup DOMAIN projection :
                /\ group \in DOMAIN projection <=>
                       ContainsRumor(list[k], group, FixedInnerKey(k))
                /\ group \in DOMAIN projection =>
                       projection[group] = Some(list[k][group][FixedInnerKey(k)])

\* The value of a string of decimal digits.
RECURSIVE DecimalValue(_)
DecimalValue(digits) ==
    IF digits = <<>> THEN 0
    ELSE DecimalValue(SubSeq(digits, 1, Len(digits) - 1)) * 10
             + ToDigit(digits[Len(digits)]).some

\* A string of one or more decimal digits, after an optional plus sign.
IsDecimal(s) ==
    LET digits == IF s # <<>> /\ s[1] = "+" THEN Tail(s) ELSE s
    IN  digits # <<>> /\ \A i \in DOMAIN digits : digits[i] \in Range(Digits)

DecimalOf(s) == DecimalValue(IF s[1] = "+" THEN Tail(s) ELSE s)

\* C33: every u64 value v is serialized to JSON as the decimal string of v,
\* never as a JSON number, and deserializing that string returns v; a string
\* that is not a decimal u64 (negative, non-numeric, or greater than the
\* largest u64) is rejected with an error.
JsonU64RoundTrip ==
    /\ call.op = "serialize" =>
          /\ IsOk(call.output)
          /\ DOMAIN call.output.ok = {"str"}
          /\ IsDecimal(call.output.ok.str)
          /\ call.output.ok.str[1] # "+"
          /\ Len(call.output.ok.str) > 1 => call.output.ok.str[1] # "0"
          /\ DecimalOf(call.output.ok.str) = call.input
    /\ (call.op = "deserialize" /\ IsSome(call.sent)) => call.output = Ok(call.sent.some)
    /\ (call.op = "deserialize" /\ DOMAIN call.input = {"str"}) =>
          LET s == call.input.str
          IN  IF IsDecimal(s) /\ DecimalOf(s) <= U64Max
              THEN call.output = Ok(DecimalOf(s))
              ELSE ~IsOk(call.output)
    /\ (call.op = "deserialize" /\ DOMAIN call.input = {"num"}) => ~IsOk(call.output)

\* The largest value went out as a string of two digits and came back.
JsonU64RoundTripWitness ==
    /\ call.op = "deserialize"
    /\ call.sent = Some(U64Max)
    /\ Len(call.input.str) = 2
    /\ call.output = Ok(U64Max)

\* C34: search_package_impl requests each page with the range equal to the
\* number of packages accumulated so far, returns the packages in the order
\* the pages delivered them, truncated to at most limit entries, returns as
\* second component the total_count of the last page fetched, and issues no
\* further request once the accumulated count reaches limit or a page reports
\* that no more results follow.
SearchPagesInOrder ==
    /\ [](call.op = "search_package_impl" =>
            /\ call.pc = "fetched" => call.range = Len(call.packages)
            /\ (call.pc = "done" /\ IsOk(call.last)) =>
                  LET page == call.last.ok
                  IN  /\ IsOk(call.result)
                      /\ Len(call.result.ok[1]) =
                             IF Len(call.packages) < call.limit
                             THEN Len(call.packages) ELSE call.limit
                      /\ \A i \in DOMAIN call.result.ok[1] :
                             call.result.ok[1][i] = call.packages[i]
                      /\ call.result.ok[2] = page.total_count % UsizeModulus
                      /\ page.total_count >= 0 => call.result.ok[2] = page.total_count
                      /\ Len(call.packages) >= call.limit \/ ~page.more_to_come)
    /\ [][(call.op = "search_package_impl" /\ call.pc = "fetched" /\ IsOk(call.response)) =>
             LET page == call.response.ok
                 n == Len(call.packages) + Len(page.data)
             IN  /\ call'.packages = call.packages \o page.data
                 /\ call'.pc = IF n >= call.limit \/ ~page.more_to_come
                               THEN "done" ELSE "loop"]_vars
    /\ [][(call.op = "search_package_impl" /\ call.pc = "done") => call' = call]_vars

\* With limit 3, two pages of two packages were fetched, the second one at
\* range 2; three packages are returned, with the total of the second page.
SearchPagesWitness ==
    /\ call.op = "search_package_impl"
    /\ call.pc = "done"
    /\ call.limit = 3
    /\ call.packages = <<"one_a", "one_b", "one_b", "one_a">>
    /\ call.result = Ok(<<<<"one_a", "one_b", "one_b">>, 2>>)

\* C38: search_package_impl returns after finitely many page requests for
\* every behaviour of the page source, a page without data that reports more
\* results included.
SearchTerminates == <>(call.op = "search_package_impl" /\ call.pc = "done")

\* C35: purge_expired(at) never removes a rumor that is not expired at at,
\* under any interleaving with other threads: a live rumor that another thread
\* puts at the (key, id) of an expired one between the scan and the removal is
\* still in the store when purge_expired returns.
PurgeRemovesOnlyExpired ==
    [][\A t \in Purgers :
          (pc[t] = "remove" /\ pc'[t] = "each") =>
              \A e \in Entries(list["fake"]) \ Entries(list'["fake"]) :
                  Expired(list["fake"][e[1]][e[2]].expiration, local[t].at)]_vars

\* C36: the projection { list, update_counter } is a point-in-time view: the
\* projected update_counter is the value the counter had in the state the
\* projected list was taken from.
ProjectionPointInTime ==
    \A t \in Serializers :
        pc[t] = "end" => local[t].counter = local[t].list_counter

\* Whether a thread holds a guard of the lock.
HoldsGuard(t) == lock.writer = t \/ t \in lock.readers

\* C37: every store operation completes under any interleaving of insert,
\* remove, clear, purge_expired, expire_all_for_key and the reads, the lock
\* being fair; no operation acquires the lock while it holds it: purge_expired
\* has released its read guard before it takes the write guard of a removal.
OperationsComplete ==
    /\ [](\A t \in PurgeThreads : pc[t] \in {"idle", "each"} => ~HoldsGuard(t))
    /\ \A t \in PurgeThreads : (pc[t] # "idle") ~> (pc[t] = "idle")

\* purge_expired has collected an expired rumor and waits for the write guard
\* while another thread holds it.
OperationsCompleteWitness ==
    /\ pc["p"] = "each"
    /\ local["p"].expired # {}
    /\ lock.writer = "w1"
    /\ ~HoldsGuard("p")

====
